---------------------------- MODULE Spec2Model ----------------------------
(***************************************************************************)
(* A model of badfish (src/src/badfish/badfish.py): the request layer's    *)
(* permit pool, the multi-host orchestrator (main / execute_badfish), the  *)
(* boot-order reconciliation (change_boot_order), the template lookup      *)
(* (get_interfaces_by_type), the job poll loop (get_job_status), the power *)
(* state controller (get_power_state, set_power_state, reboot_server,      *)
(* polling_host_state) and the job queue clearing (clear_job_queue).       *)
(*                                                                         *)
(* Each component has its own variables and its own specification; the     *)
(* variables of the other components stay parked at their initial value.   *)
(***************************************************************************)
EXTENDS Integers, Sequences, FiniteSets, Bags, TLC

VARIABLES
    \* ---- permit pool (Badfish.__init__, *_request) ----
    sessions,       \* bag of session states [pc, semaphore]
    \* ---- orchestrator (main, execute_badfish) ----
    mode,           \* "none" | "list" | "single": which of -H / --host-list was given
    action,         \* the action flag of _args, shared by every host
    readable,       \* whether open(host_list) succeeds
    nhosts,         \* number of lines of the host list file
    mainPc,         \* position of main
    sess,           \* task index -> session record of execute_badfish
    completed,      \* task indices in completion order
    results,        \* main's `results`
    result,         \* main's `result`
    exitCode,       \* value returned by main, NoExit before it returns
    \* ---- boot order engine (change_boot_order, patch_boot_seq) ----
    boot_devices,   \* self.boot_devices: sequence of [Name, Index, Enabled]
    bootBefore,     \* self.boot_devices before the last change_boot_order run
    bootT,          \* `interfaces` (the template) of the last run, <<>> before it
    bootRepeat,     \* the last run used the template of the run before it
    bootChange,     \* `change` of the last run
    bootPc,         \* "idle" | "patch" (inside patch_boot_seq)
    bootPatches,    \* PATCH requests sent by the last run
    bootStatus,     \* `_status_code` of patch_boot_seq
    bootLast,       \* `response` of patch_boot_seq: "none" | "absent" | "response"
    bootRaised,     \* the last run ended with BadfishException
    bootRetries,    \* self.retries of the session
    \* ---- template lookup (get_interfaces_by_type) ----
    tHost,          \* self.host.split(".")[0].split("-")
    tType,          \* the host_type argument
    definitions,    \* the yaml mapping: [key -> list of names], "" being <<>>
    tTried,         \* the keys looked up with definitions.get, in order
    tResult,        \* [kind |-> "pending" | "returned" | "raised", interfaces]
    \* ---- job poll loop (get_job_status, get_request cache) ----
    jobPc,          \* "loop" | "returned" | "failed_status" | "KeyError" | "exhausted"
    jobRetries,     \* self.retries
    jobIter,        \* iterations of the for loop started so far
    jobSeen,        \* per iteration: what get_request returned
    jobSent,        \* per iteration: whether an HTTP GET was sent
    jobCache,       \* the alru_cache entry of (self, uri, True), NoEntry if none
    jobCtl,         \* per iteration: what the controller answers at that time
    \* ---- power state controller (get/set_power_state, reboot_server) ----
    pwCall,         \* the operation called: [op, target, graceful]
    pwPc,           \* position inside the operation
    pwRetries,      \* self.retries
    pwCache,        \* alru_cache entry of (self, system uri, True), NoFetch if none
    pwTypes,        \* `_reset_types` of reboot_server
    reset_type,     \* `reset_type` of reboot_server
    pwLog,          \* requests and observations so far, in program order
    pwCount,        \* iterations of the running polling_host_state loop
    pwDesired,      \* `desired_state` of the running polling_host_state
    pwRet,          \* "pending", the value returned, or the exception raised
    pwSleeps,       \* asyncio.sleep(5) calls of the running polling_host_state
    pwBar,          \* percentages the running polling_host_state printed
    pwPolls,        \* the polling_host_state calls that returned, in order
    \* ---- job queue clearing (clear_job_queue and its tiers) ----
    ctlQueue,       \* the job ids the controller holds
    clrCache,       \* alru_cache entry of the Jobs GET: [hit, jobs]
    clrProbe,       \* alru_cache entry of the DellJobService GET: status, NoProbe if none
    clrRuns,        \* clear_job_queue invocations started by the session
    clrPc,          \* position inside clear_job_queue
    clrForce,       \* `force` of the running invocation
    clrQueue,       \* `_job_queue` of the running invocation
    clrEmpty,       \* the controller's queue was empty when the invocation began
    clrLog,         \* requests sent by the running invocation, in order
    clrIdx,         \* jobs of `_job_queue` handled by the running clear_job_list
    clrFailed,      \* `failed` of the running clear_job_list
    clrInTry,       \* the running clear_job_list was called inside the try block
    clrRet,         \* "pending", "None" or the exception raised
    \* ---- read cache (alru_cache of get_request) ----
    cRank,          \* per key of the session: entries used more recently, NoRank if not cached
    cVal,           \* per key: the memoized result
    cSince,         \* per key: other keys used since its last call that returned
    ctlDoc,         \* the document the controller serves at the URI
    cLog,           \* the session's requests: [method, flag, sent, value, fresh]
    cEvictor,       \* whose GET pushed out the entry evicted last: "none", "own", "other"
    \* ---- resource location (badfish_factory, Badfish.init) ----
    locDocs,        \* what the controller answers at each discovery URI
    locPc,          \* position of badfish_factory / execute_badfish
    system_resource,    \* self.system_resource, "" for None
    manager_resource,   \* self.manager_resource, "" for None
    bios_uri,       \* self.bios_uri, "" for None
    locInits,       \* how many times Badfish.init was entered
    locLog,         \* URIs of the HTTP GETs sent by init, in order
    locActs,        \* requests issued by the action of the session
    \* ---- change_boot (get_host_type and the write steps) ----
    chgDevs,        \* self.boot_devices
    chgMap,         \* per host type, what get_interfaces_by_type finds for this host
    chgCall,        \* the arguments [host_type, pxe] of change_boot
    chgRetries,     \* self.retries
    chgPc,          \* position inside change_boot
    chgType,        \* `_type`, what get_host_type ended with
    chgChange,      \* `change` of change_boot_order
    chgLog,         \* the write requests sent so far: [step, method, status]
    chgRet,         \* "pending", "True" or the exception raised
    \* ---- boot_to (send_one_time_boot) ----
    otbRetries,     \* self.retries
    otbPc,          \* position inside boot_to / send_one_time_boot
    otbI,           \* iterations of the loop of send_one_time_boot begun
    otbFirstReset,  \* `_first_reset`
    otbLog,         \* requests and calls so far: [ev, status]
    otbRet          \* "pending", "True" or the exception raised

poolVars == <<sessions>>
orchVars == <<mode, action, readable, nhosts, mainPc, sess, completed,
              results, result, exitCode>>
bootVars == <<boot_devices, bootBefore, bootT, bootRepeat, bootChange, bootPc,
              bootPatches, bootStatus, bootLast, bootRaised, bootRetries>>
tmplVars == <<tHost, tType, definitions, tTried, tResult>>
jobVars  == <<jobPc, jobRetries, jobIter, jobSeen, jobSent, jobCache, jobCtl>>
powerVars == <<pwCall, pwPc, pwRetries, pwCache, pwTypes, reset_type, pwLog,
               pwCount, pwDesired, pwRet, pwSleeps, pwBar, pwPolls>>
clearVars == <<ctlQueue, clrCache, clrProbe, clrRuns, clrPc, clrForce, clrQueue,
               clrEmpty, clrLog, clrIdx, clrFailed, clrInTry, clrRet>>
cacheVars == <<cRank, cVal, cSince, ctlDoc, cLog, cEvictor>>
locVars  == <<locDocs, locPc, system_resource, manager_resource, bios_uri,
              locInits, locLog, locActs>>
chgVars  == <<chgDevs, chgMap, chgCall, chgRetries, chgPc, chgType, chgChange,
              chgLog, chgRet>>
otbVars  == <<otbRetries, otbPc, otbI, otbFirstReset, otbLog, otbRet>>
vars     == <<poolVars, orchVars, bootVars, tmplVars, jobVars, powerVars,
              clearVars, cacheVars, locVars, chgVars, otbVars>>

-----------------------------------------------------------------------------
(* Bounds of the model *)
PoolHosts == 51
MaxHosts == 3
MaxTemplateLen == 2
MaxRetries == 2
MaxJobRetries == 3

(* Program constants *)
Permits == 50

-----------------------------------------------------------------------------
(* Parked values: what a component's variables hold while another          *)
(* component's specification runs.                                         *)
PoolParked == sessions = EmptyBag
OrchParked ==
    /\ mode = "none" /\ action = "none" /\ readable = FALSE /\ nhosts = 0
    /\ mainPc = "parked" /\ sess = <<>> /\ completed = <<>>
    /\ results = <<>> /\ result = TRUE /\ exitCode = -1
BootParked ==
    /\ boot_devices = <<>> /\ bootBefore = <<>> /\ bootT = <<>>
    /\ bootRepeat = FALSE /\ bootChange = FALSE /\ bootPc = "parked"
    /\ bootPatches = 0 /\ bootStatus = 0 /\ bootLast = "none"
    /\ bootRaised = FALSE /\ bootRetries = 0
TmplParked ==
    /\ tHost = <<>> /\ tType = "" /\ definitions = <<>> /\ tTried = <<>>
    /\ tResult = [kind |-> "parked", interfaces |-> <<>>]
JobParked ==
    /\ jobPc = "parked" /\ jobRetries = 0 /\ jobIter = 0 /\ jobSeen = <<>>
    /\ jobSent = <<>> /\ jobCache = [status |-> -1, message |-> ""]
    /\ jobCtl = <<>>
PowerParked ==
    /\ pwCall = [op |-> "parked", target |-> "", graceful |-> FALSE]
    /\ pwPc = "parked" /\ pwRetries = 0 /\ pwCache = "none" /\ pwTypes = <<>>
    /\ reset_type = "" /\ pwLog = <<>> /\ pwCount = 0 /\ pwDesired = FALSE
    /\ pwRet = "pending" /\ pwSleeps = 0 /\ pwBar = <<>> /\ pwPolls = <<>>
CacheParked ==
    /\ cRank = <<>> /\ cVal = <<>> /\ cSince = <<>> /\ ctlDoc = ""
    /\ cLog = <<>> /\ cEvictor = "parked"
LocParked ==
    /\ locDocs = <<>> /\ locPc = "parked" /\ system_resource = <<>>
    /\ manager_resource = <<>> /\ bios_uri = <<>> /\ locInits = 0
    /\ locLog = <<>> /\ locActs = 0
ChgParked ==
    /\ chgDevs = <<>> /\ chgMap = <<>> /\ chgCall = <<>> /\ chgRetries = 0
    /\ chgPc = "parked" /\ chgType = "" /\ chgChange = FALSE
    /\ chgLog = <<>> /\ chgRet = "pending"
OtbParked ==
    /\ otbRetries = 0 /\ otbPc = "parked" /\ otbI = 0
    /\ otbFirstReset = FALSE /\ otbLog = <<>> /\ otbRet = "pending"
ClearParked ==
    /\ ctlQueue = <<>> /\ clrCache = [hit |-> FALSE, jobs |-> <<>>]
    /\ clrProbe = -1 /\ clrRuns = 0 /\ clrPc = "parked" /\ clrForce = FALSE
    /\ clrQueue = <<>> /\ clrEmpty = FALSE /\ clrLog = <<>> /\ clrIdx = 0
    /\ clrFailed = FALSE /\ clrInTry = FALSE /\ clrRet = "pending"

-----------------------------------------------------------------------------
(***************************************************************************)
(* PERMIT POOL.  Badfish.__init__ builds one asyncio.Semaphore(50) per     *)
(* Badfish object (line 56), and main runs one execute_badfish, hence one  *)
(* Badfish object, per host of the list, all gathered concurrently.  The   *)
(* sessions are interchangeable, so the state is the bag of their states.  *)
(***************************************************************************)

\* Badfish.__init__: a fresh session, holding its own semaphore
NewSession == [pc |-> "ready", semaphore |-> Permits]

\* replace one session in state s by one in state t
PoolMove(s, t) == (sessions (-) SetToBag({s})) (+) SetToBag({t})

\* main: one task per host, every task started by asyncio.gather
PoolInit == sessions = [s \in {NewSession} |-> PoolHosts]

\* `async with self.semaphore:` entered, the HTTP request is then in flight
PoolAcquire ==
    \E s \in BagToSet(sessions) :
        /\ s.pc = "ready"
        /\ s.semaphore > 0
        /\ sessions' = PoolMove(s, [pc |-> "inflight", semaphore |-> s.semaphore - 1])

\* the request completed or failed: the `async with` block is left
PoolRelease ==
    \E s \in BagToSet(sessions) :
        /\ s.pc = "inflight"
        /\ sessions' = PoolMove(s, [pc |-> "ready", semaphore |-> s.semaphore + 1])

\* execute_badfish returns: the session issues no further request
PoolClose ==
    \E s \in BagToSet(sessions) :
        /\ s.pc = "ready"
        /\ sessions' = PoolMove(s, [pc |-> "done", semaphore |-> s.semaphore])

RECURSIVE PoolSum(_, _)
PoolSum(b, S) ==
    IF S = {} THEN 0
    ELSE LET s == CHOOSE x \in S : TRUE
         IN  b[s] * (Permits - s.semaphore) + PoolSum(b, S \ {s})

\* permits held, summed over every session of the run = requests in flight
InFlightTotal == PoolSum(sessions, BagToSet(sessions))

PoolFrame ==
    UNCHANGED <<orchVars, bootVars, tmplVars, jobVars, powerVars, clearVars, cacheVars, locVars,
                chgVars, otbVars>>
InitPool == PoolInit /\ OrchParked /\ BootParked /\ TmplParked /\ JobParked
    /\ PowerParked /\ ClearParked /\ CacheParked /\ LocParked
    /\ ChgParked /\ OtbParked
NextPool ==
    \/ PoolAcquire /\ PoolFrame
    \/ PoolRelease /\ PoolFrame
    \/ PoolClose /\ PoolFrame
SpecPool == InitPool /\ [][NextPool]_vars

\* C1: in one orchestrator run the number of HTTP requests in flight, summed
\* over all host sessions, never exceeds 50.
C1_InFlightNeverExceedsPermits == InFlightTotal <= Permits


-----------------------------------------------------------------------------
(***************************************************************************)
(* ORCHESTRATOR.  main (lines 1816-1900) and execute_badfish (1611-1706),  *)
(* with the power actions get_power_state / set_power_state / send_reset   *)
(* as the action a session runs.  The host of task i is the i-th line of   *)
(* the host list, written i.  --pxe is not given.                          *)
(***************************************************************************)
NoExit == -1
Actions == {"power_state", "power_on", "power_off"}

\* what badfish_factory / Badfish.init meets:
\*   "ok"    the resources are located
\*   "comm"  a get_request fails to communicate (lines 118-124)
\*   "auth"  the controller answers 401 (lines 380-384, 437-439)
InitOutcomes == {"ok", "comm", "auth"}

\* what the tolerant GET of the system resource yields (get_request, _continue)
FetchResponses == {"absent", "non200", "nostate", "state"}

\* what the POST of send_reset yields: 200/204, 409, another status, or a
\* communication failure inside post_request
ResetResponses == {"ok", "conflict", "rejected", "comm"}

\* values a task completes with: a (host, success) pair or a raised exception
Pair(h, ok) == [kind |-> "pair", host |-> h, ok |-> ok, exc |-> "none"]
Raised(h, e) == [kind |-> "raised", host |-> h, ok |-> FALSE, exc |-> e]
NoRet == [kind |-> "none", host |-> 0, ok |-> FALSE, exc |-> "none"]

NewSess == [pc |-> "new", init |-> "none", fetch |-> "none", reset |-> "none",
            ret |-> NoRet]

\* Badfish.init: the exception it ends with, "none" when it completes
InitException(o) ==
    CASE o = "ok" -> "none"
      [] o = "comm" -> "BadfishException"
      [] o = "auth" -> "BadfishException"

\* get_power_state (512-532): the exception it ends with, "none" on return
GetPowerState(resp) ==
    CASE resp = "absent" -> "none"          \* returns "Down"
      [] resp = "non200" -> "none"          \* returns "Down"
      [] resp = "nostate" -> "BadfishException"
      [] resp = "state" -> "none"

\* set_power_state (534-565) up to the reset: "return", "reset" (send_reset
\* follows) or the exception raised.  With an absent response and state "on"
\* line 547 reads `_response.status` of None.
SetPowerState(state, resp) ==
    CASE resp = "absent" /\ state = "off" -> "return"
      [] resp = "absent" /\ state # "off" -> "AttributeError"
      [] resp = "non200" -> "BadfishException"
      [] resp = "nostate" -> "BadfishException"
      [] resp = "state" -> "reset"

\* send_reset (807-834): the exception it ends with, "none" on return
SendReset(resp) ==
    CASE resp = "ok" -> "none"
      [] resp = "conflict" -> "none"
      [] resp = "rejected" -> "BadfishException"   \* error_handler raises
      [] resp = "comm" -> "BadfishException"       \* post_request raises

\* the try/except of execute_badfish left with BadfishException uncaught
ExecuteBadfishNoCatch(h, exc) ==
    IF exc = "none" THEN Pair(h, TRUE) ELSE Raised(h, exc)

\* execute_badfish (1639-1706): what the coroutine completes with when its
\* try block ended with exception exc ("none": it ran to its end)
ExecuteBadfishReturn(h, exc) ==
    CASE exc = "none" -> Pair(h, TRUE)
      [] exc = "BadfishException" -> Pair(h, FALSE)
      [] OTHER -> Raised(h, exc)

Tasks == DOMAIN sess
AllDone == \A i \in Tasks : sess[i].pc = "done"
Running == mainPc \in {"gather", "run"}

Finish(i, s, exc) ==
    /\ sess' = [sess EXCEPT ![i] = [s EXCEPT !.pc = "done",
                                             !.ret = ExecuteBadfishReturn(i, exc)]]
    /\ completed' = Append(completed, i)

\* badfish_factory: Badfish(...) and await badfish.init()
SessionInit(i) ==
    /\ Running /\ sess[i].pc = "new"
    /\ \E o \in InitOutcomes :
        LET s == [sess[i] EXCEPT !.init = o]
        IN  IF InitException(o) = "none"
            THEN /\ sess' = [sess EXCEPT ![i] = [s EXCEPT !.pc = "action"]]
                 /\ UNCHANGED completed
            ELSE Finish(i, s, InitException(o))
    /\ UNCHANGED <<mode, action, readable, nhosts, mainPc, results, result, exitCode>>

\* the selected action up to its first POST: get_power_state or set_power_state
SessionFetch(i) ==
    /\ Running /\ sess[i].pc = "action"
    /\ \E r \in FetchResponses :
        LET s == [sess[i] EXCEPT !.fetch = r]
            next == CASE action = "power_state" -> GetPowerState(r)
                      [] action = "power_on" -> SetPowerState("on", r)
                      [] action = "power_off" -> SetPowerState("off", r)
        IN  CASE next = "reset" ->
                   /\ sess' = [sess EXCEPT ![i] = [s EXCEPT !.pc = "reset"]]
                   /\ UNCHANGED completed
              [] next \in {"none", "return"} -> Finish(i, s, "none")
              [] OTHER -> Finish(i, s, next)
    /\ UNCHANGED <<mode, action, readable, nhosts, mainPc, results, result, exitCode>>

\* send_reset("ForceOff") / send_reset("On") of set_power_state
SessionReset(i) ==
    /\ Running /\ sess[i].pc = "reset"
    /\ \E r \in ResetResponses :
        Finish(i, [sess[i] EXCEPT !.reset = r], SendReset(r))
    /\ UNCHANGED <<mode, action, readable, nhosts, mainPc, results, result, exitCode>>

\* main up to run_until_complete (1816-1862, 1881-1889)
MainStart ==
    /\ mainPc = "start"
    /\ CASE mode = "list" ->
              \* an unreadable list leaves `tasks` empty (IOError, 1857)
              /\ sess' = [i \in 1..(IF readable THEN nhosts ELSE 0) |-> NewSess]
              /\ mainPc' = "gather"
         [] mode = "single" ->
              /\ sess' = <<NewSess>>
              /\ mainPc' = "run"
         [] mode = "none" ->
              /\ sess' = <<>>
              /\ mainPc' = "return"
    /\ UNCHANGED <<mode, action, readable, nhosts, completed, results, result, exitCode>>

\* a gather that lists the results in completion order
GatherInCompletionOrder(s, order) == [k \in 1..Len(order) |-> s[order[k]].ret]

\* asyncio.gather(*tasks, return_exceptions=True): the children's results or
\* exceptions, listed in the order of the awaitables
Gather(s, order) == [i \in 1..Len(s) |-> s[i].ret]

\* run_until_complete returns the gathered list (1862-1864)
MainGathered ==
    /\ mainPc = "gather" /\ AllDone
    /\ results' = Gather(sess, completed)
    /\ mainPc' = "summary"
    /\ UNCHANGED <<mode, action, readable, nhosts, sess, completed, result, exitCode>>

\* KeyboardInterrupt while the loop runs (1865-1867, 1890-1891)
MainInterrupt ==
    /\ Running /\ ~AllDone
    /\ IF mainPc = "gather"
       THEN /\ result' = FALSE
            /\ mainPc' = "summary"
       ELSE /\ result' = result
            /\ mainPc' = "return"
    /\ UNCHANGED <<mode, action, readable, nhosts, sess, completed, results, exitCode>>

\* the RESULTS loop (1872-1880); len() of an exception object raises TypeError
MainSummary ==
    /\ mainPc = "summary"
    /\ IF results = <<>>
       THEN /\ result' = result
            /\ mainPc' = "return"
       ELSE IF \E k \in DOMAIN results : results[k].kind = "raised"
       THEN /\ result' = \A k \in DOMAIN results :
                            (\E j \in 1..k : results[j].kind = "raised") \/ results[k].ok
            /\ mainPc' = "crashed"
       ELSE /\ result' = \A k \in DOMAIN results : results[k].ok
            /\ mainPc' = "return"
    /\ UNCHANGED <<mode, action, readable, nhosts, sess, completed, results, exitCode>>

\* single host: `_host, result = loop.run_until_complete(...)` (1886-1895)
MainSingle ==
    /\ mainPc = "run" /\ AllDone
    /\ IF sess[1].ret.kind = "pair"
       THEN /\ result' = sess[1].ret.ok
            /\ mainPc' = "return"
       ELSE /\ result' = result
            /\ mainPc' = "crashed"
    /\ UNCHANGED <<mode, action, readable, nhosts, sess, completed, results, exitCode>>

\* `if result: return 0` / `return 1` (1898-1900)
MainReturn ==
    /\ mainPc = "return"
    /\ exitCode' = IF result THEN 0 ELSE 1
    /\ mainPc' = "exited"
    /\ UNCHANGED <<mode, action, readable, nhosts, sess, completed, results, result>>

OrchInit ==
    /\ mode \in {"none", "list", "single"}
    /\ action \in Actions
    /\ readable \in BOOLEAN
    /\ nhosts \in 0..MaxHosts
    /\ mode = "none" => nhosts = 0 /\ readable
    /\ mode = "single" => nhosts = 1 /\ readable
    /\ mainPc = "start"
    /\ sess = <<>> /\ completed = <<>> /\ results = <<>>
    /\ result = TRUE                         \* line 1818
    /\ exitCode = NoExit

OrchFrame ==
    UNCHANGED <<poolVars, bootVars, tmplVars, jobVars, powerVars, clearVars, cacheVars, locVars,
                chgVars, otbVars>>
Init == OrchInit /\ PoolParked /\ BootParked /\ TmplParked /\ JobParked
    /\ PowerParked /\ ClearParked /\ CacheParked /\ LocParked
    /\ ChgParked /\ OtbParked
Next ==
    \/ MainStart /\ OrchFrame
    \/ (\E i \in Tasks : SessionInit(i)) /\ OrchFrame
    \/ (\E i \in Tasks : SessionFetch(i)) /\ OrchFrame
    \/ (\E i \in Tasks : SessionReset(i)) /\ OrchFrame
    \/ MainGathered /\ OrchFrame
    \/ MainInterrupt /\ OrchFrame
    \/ MainSummary /\ OrchFrame
    \/ MainSingle /\ OrchFrame
    \/ MainReturn /\ OrchFrame
Spec == Init /\ [][Next]_vars


(* ---- observations used by the orchestrator claims ---- *)

\* asyncio.gather returned normally (MainInterrupt needs an unfinished task)
GatherReturned ==
    /\ mode = "list" /\ AllDone
    /\ mainPc \in {"summary", "return", "exited", "crashed"}

\* the exception the try block of session s ends with, from the answers its
\* own controller gave
OwnException(s) ==
    IF InitException(s.init) # "none" THEN InitException(s.init)
    ELSE LET next == CASE action = "power_state" -> GetPowerState(s.fetch)
                       [] action = "power_on" -> SetPowerState("on", s.fetch)
                       [] action = "power_off" -> SetPowerState("off", s.fetch)
         IN  CASE next = "reset" -> SendReset(s.reset)
               [] next \in {"none", "return"} -> "none"
               [] OTHER -> next

\* the outcome host i has on its own: success iff nothing was raised
OwnOutcome(i) ==
    LET exc == OwnException(sess[i])
    IN  CASE exc = "none" -> Pair(i, TRUE)
          [] exc = "BadfishException" -> Pair(i, FALSE)
          [] OTHER -> Raised(i, exc)

\* the session failed on a communication failure raised by the request layer
CommFailed(s) == s.init = "comm" \/ s.reset = "comm"

\* C2: when the session of one host b of the list fails with a communication
\* failure raised by the request layer, the result sequence still has one
\* entry per host, b's entry is (b, failure), and every other host's entry is
\* the outcome that host has on its own controller's answers.
C2_FailureIsolated ==
    GatherReturned =>
        \A b \in Tasks : CommFailed(sess[b]) =>
            /\ Len(results) = nhosts
            /\ results[b] = Pair(b, FALSE)
            /\ \A i \in Tasks \ {b} : results[i] = OwnOutcome(i)

\* hosts [1, 2, 3], host 2 failed first on a communication failure, host 1
\* succeeded and host 3 failed on its own (PowerState missing)
C2_Witness ==
    /\ GatherReturned /\ readable /\ nhosts = 3
    /\ CommFailed(sess[2]) /\ completed[1] = 2
    /\ results[1] = Pair(1, TRUE)
    /\ sess[3].fetch = "nostate" /\ results[3] = Pair(3, FALSE)

\* C3: execute_badfish only ever terminates by returning a (host, success)
\* pair, (host, False) on every failure, so main's summary loop gets a pair
\* for each host.
C3_SessionAlwaysReturnsPair ==
    /\ \A i \in Tasks : sess[i].pc = "done" => sess[i].ret.kind = "pair"
    /\ mainPc # "crashed"

AllSucceeded ==
    /\ Tasks # {} /\ AllDone
    /\ \A i \in Tasks : sess[i].ret = Pair(i, TRUE)

\* C5: main returns 0 exactly when every requested host's action succeeded,
\* and 1 otherwise (also when nothing was executed).
C5_ExitCodeZeroIffAllSucceeded ==
    mainPc = "exited" =>
        /\ exitCode \in {0, 1}
        /\ exitCode = 0 <=> AllSucceeded


-----------------------------------------------------------------------------
(***************************************************************************)
(* BOOT ORDER ENGINE.  change_boot_order (602-629) and patch_boot_seq      *)
(* (631-656) on the session's live list self.boot_devices.  A device is a  *)
(* record [Name, Index, Enabled]; the live list holds the first n of       *)
(* LiveOrder with the indices 0..n-1 in any order, as the controller       *)
(* reports them; the second device is disabled.  A template is the         *)
(* non-empty list of names that get_interfaces_by_type returned; "nic9" is *)
(* a name no live device has.                                              *)
(***************************************************************************)
LiveOrder == <<"nic1", "nic2", "hdd">>
TemplateNames == {"nic1", "nic2", "hdd", "nic9"}

RECURSIVE SeqsUpTo(_, _)
SeqsUpTo(S, n) ==
    IF n = 0 THEN {<<>>}
    ELSE LET shorter == SeqsUpTo(S, n - 1)
         IN  shorter \cup {Append(q, x) : q \in shorter, x \in S}

Templates == SeqsUpTo(TemplateNames, MaxTemplateLen) \ {<<>>}

Range(q) == {q[k] : k \in DOMAIN q}
NoRepeats(q) == \A a, b \in DOMAIN q : q[a] = q[b] => a = b

\* `device["Index"] != i` replaced by a test that always holds
IndexDiffersAlways(d, i) == TRUE

\* line 619: `if device["Index"] != i`
IndexDiffers(d, i) == d.Index # i

\* enumerate taken as counting from 1
EnumerateFromOne(pos) == pos

\* line 616: enumerate(valid_devices) counts from 0; pos is the 1-based position
Enumerate(pos) == pos - 1

\* lines 617-622: the first device named `interface`, 0 if there is none
FirstNamed(devs, interface) ==
    IF \E k \in DOMAIN devs : devs[k].Name = interface
    THEN CHOOSE k \in DOMAIN devs :
            /\ devs[k].Name = interface
            /\ \A j \in 1..(k - 1) : devs[j].Name # interface
    ELSE 0

\* lines 614-622: the loop over valid_devices from position pos on, acc being
\* [devices |-> ordered_devices, change |-> change]
RECURSIVE ReconcileFrom(_, _, _)
ReconcileFrom(acc, valid, pos) ==
    IF pos > Len(valid) THEN acc
    ELSE LET k == FirstNamed(acc.devices, valid[pos])
             i == Enumerate(pos)
         IN  IF k # 0 /\ IndexDiffers(acc.devices[k], i)
             THEN ReconcileFrom(
                      [devices |-> [acc.devices EXCEPT ![k].Index = i],
                       change |-> TRUE], valid, pos + 1)
             ELSE ReconcileFrom(acc, valid, pos + 1)

\* lines 606-607: the template's names that name a live device, in template order
ValidDevices(devs, interfaces) ==
    SelectSeq(interfaces, LAMBDA x : \E k \in DOMAIN devs : devs[k].Name = x)

\* lines 606-622 as a whole
Reconcile(devs, interfaces) ==
    ReconcileFrom([devices |-> devs, change |-> FALSE],
                  ValidDevices(devs, interfaces), 1)

\* the session's list after get_boot_devices
BootInit ==
    /\ \E n \in 1..Len(LiveOrder) :
       \E idx \in [1..n -> 0..(n - 1)] :
          /\ \A a, b \in 1..n : idx[a] = idx[b] => a = b
          /\ boot_devices = [k \in 1..n |->
                [Name |-> LiveOrder[k], Index |-> idx[k],
                 Enabled |-> (k # 2)]]
    /\ bootRetries \in 0..MaxRetries
    /\ bootBefore = boot_devices
    /\ bootT = <<>> /\ bootRepeat = FALSE /\ bootChange = FALSE
    /\ bootPc = "idle" /\ bootPatches = 0 /\ bootStatus = 0
    /\ bootLast = "none" /\ bootRaised = FALSE

\* change_boot_order up to the call of patch_boot_seq.  ordered_devices is a
\* shallow copy (line 615): the dicts it changes are those of self.boot_devices.
ChangeBootOrder(interfaces) ==
    /\ bootPc = "idle"
    /\ LET r == Reconcile(boot_devices, interfaces)
       IN  /\ boot_devices' = r.devices
           /\ bootChange' = r.change
           /\ bootPc' = IF r.change THEN "patch" ELSE "idle"
           /\ bootStatus' = IF r.change THEN 400 ELSE 0      \* line 638
    /\ bootBefore' = boot_devices
    /\ bootT' = interfaces
    /\ bootRepeat' = (interfaces = bootT)
    /\ bootPatches' = 0
    /\ bootLast' = "none"
    /\ bootRaised' = FALSE
    /\ UNCHANGED bootRetries

\* the loop keeps sending whatever the status is
LoopSendsAlways(status) == TRUE

\* line 641: `if _status_code != 200`, else `break`
LoopSends(status) == status # 200

\* one iteration of the loop of patch_boot_seq that sends a PATCH (640-646);
\* the tolerant patch_request yields no response or one with a status
PatchBootSeqSend ==
    /\ bootPc = "patch"
    /\ bootPatches < bootRetries /\ LoopSends(bootStatus)
    /\ \E answer \in {"absent", "200", "400"} :
        /\ bootLast' = IF answer = "absent" THEN "absent" ELSE "response"
        /\ bootStatus' = CASE answer = "absent" -> bootStatus
                           [] answer = "200" -> 200
                           [] answer = "400" -> 400
    /\ bootPatches' = bootPatches + 1
    /\ UNCHANGED <<boot_devices, bootBefore, bootT, bootRepeat, bootChange, bootPc,
                   bootRaised, bootRetries>>

\* the loop is left (budget used up, or `break` after a 200) and lines 650-656
\* run: error_handler raises when the status is not 200 and `response` is set;
\* bootStatus and bootLast keep what _status_code and response were at the end
PatchBootSeqEnd ==
    /\ bootPc = "patch"
    /\ bootPatches = bootRetries \/ ~LoopSends(bootStatus)
    /\ bootRaised' = (bootStatus # 200 /\ bootLast = "response")
    /\ bootPc' = "idle"
    /\ UNCHANGED <<boot_devices, bootBefore, bootT, bootRepeat, bootChange,
                   bootPatches, bootStatus, bootLast, bootRetries>>

BootFrame ==
    UNCHANGED <<poolVars, orchVars, tmplVars, jobVars, powerVars, clearVars, cacheVars, locVars,
                chgVars, otbVars>>
InitBoot == BootInit /\ PoolParked /\ OrchParked /\ TmplParked /\ JobParked
    /\ PowerParked /\ ClearParked /\ CacheParked /\ LocParked
    /\ ChgParked /\ OtbParked
NextBoot ==
    \/ (\E t \in Templates : ChangeBootOrder(t)) /\ BootFrame
    \/ PatchBootSeqSend /\ BootFrame
    \/ PatchBootSeqEnd /\ BootFrame
SpecBoot == InitBoot /\ [][NextBoot]_vars

(* ---- observations used by the boot order claims ---- *)
IndexOf(devs, name) == devs[FirstNamed(devs, name)].Index
LiveNames(devs) == {devs[k].Name : k \in DOMAIN devs}
IndicesDistinct(devs) == \A a, b \in DOMAIN devs : devs[a].Index = devs[b].Index => a = b
RunDone == bootPc = "idle" /\ bootT # <<>>

\* C6: after any sequence of change_boot_order runs on a list that started
\* with pairwise distinct indices, the indices are still pairwise distinct.
C6_IndicesStayDistinct == IndicesDistinct(boot_devices)

\* C7 as stated, for every template: a second run against the same template
\* changes no Index and sends no PATCH.
C7_SecondRunNoPatch_AnyTemplate ==
    bootRepeat => /\ boot_devices = bootBefore
                  /\ bootPatches = 0

\* C7 (amended): for a template without repeated names, a second run against
\* the same template changes no Index and sends no PATCH (patch_boot_seq is
\* not even entered).
C7_SecondRunNoPatch ==
    (bootRepeat /\ NoRepeats(bootT)) =>
        /\ ~bootChange
        /\ boot_devices = bootBefore
        /\ bootPatches = 0

\* the template <<hdd>> ran twice; the first run gave hdd the index 0 that
\* nic1 already had, the second changed nothing
C7_Witness ==
    /\ bootRepeat /\ RunDone /\ bootT = <<"hdd">> /\ Len(boot_devices) = 3
    /\ boot_devices[3].Index = 0 /\ boot_devices[1].Index = 0
    /\ ~bootChange

\* what a run does to the list: with V the template's names that are live, in
\* template order, the j-th of V has index j (from 0), the other devices keep
\* their index, and no Name or Enabled flag changes, no device comes or goes
ReconciledAsStated ==
    LET V == ValidDevices(bootBefore, bootT)
    IN  /\ \A j \in DOMAIN V : IndexOf(boot_devices, V[j]) = j - 1
        /\ Len(boot_devices) = Len(bootBefore)
        /\ \A k \in DOMAIN bootBefore :
              /\ boot_devices[k].Name = bootBefore[k].Name
              /\ boot_devices[k].Enabled = bootBefore[k].Enabled
              /\ bootBefore[k].Name \notin Range(V) =>
                    boot_devices[k].Index = bootBefore[k].Index

-----------------------------------------------------------------------------
(***************************************************************************)
(* TEMPLATE LOOKUP.  get_interfaces_by_type (184-212).  The host name is   *)
(* held split on "-"; the yaml mapping holds, per key, the comma-separated *)
(* string already split into names, the empty string being <<>>.  Every    *)
(* key's list is its own, so the list returned tells which key was read.   *)
(***************************************************************************)
HostNames == {<<"rack1", "u2", "b03", "640">>,
              <<"rack1", "u2", "n01", "640">>,
              <<"mgmt", "rack1", "u2", "b03", "640">>}
HostTypes == {"foreman", "director"}

\* line 195-196: b_pattern.match(host_blade), "b0" and a digit at the start
BPatternMatch(blade) == blade \in {"b00", "b01", "b02", "b03", "b04", "b05",
                                   "b06", "b07", "b08", "b09"}

RECURSIVE Join(_, _)
\* sep.join(parts)
Join(parts, sep) ==
    IF Len(parts) = 0 THEN ""
    ELSE IF Len(parts) = 1 THEN parts[1]
    ELSE parts[1] \o sep \o Join(Tail(parts), sep)

\* line 202: "%s_%s_interfaces" % ("_".join(prefix), host_model)
KeyOf(prefix, host_model) == Join(prefix, "_") \o "_" \o host_model \o "_interfaces"

\* the keys a mapping of the model may hold, for the hosts and types above
KeyUniverse ==
    {KeyOf(p, m) : p \in {<<"foreman", "rack1", "u2">>, <<"foreman", "rack1">>,
                          <<"foreman">>},
                   m \in {"640", "640_b03"}}
    \cup {KeyOf(<<"director">>, "640_b03")}

\* the device list written under key k
ListOf(k) == <<k \o ":nic1", k \o ":nic2">>

\* lines 188-191
HostModelOf(split) == split[Len(split)]
HostBladeOf(split) == split[Len(split) - 1]
UlocOf(split) == split[Len(split) - 2]
RackOf(split) == split[Len(split) - 3]

\* lines 199-212: the loop `for _ in range(len_prefix)`, `left` iterations to
\* go; definitions.get(key) is falsy for a missing key and for an empty string
RECURSIVE LookupFrom(_, _, _, _, _)
LookupFrom(defs, prefix, host_model, left, tried) ==
    IF left = 0 THEN [tried |-> tried, kind |-> "raised", interfaces |-> <<>>]
    ELSE LET key == KeyOf(prefix, host_model)
             t == Append(tried, key)
         IN  IF key \in DOMAIN defs /\ defs[key] # <<>>
             THEN [tried |-> t, kind |-> "returned", interfaces |-> defs[key]]
             ELSE LookupFrom(defs, SubSeq(prefix, 1, Len(prefix) - 1),
                             host_model, left - 1, t)

\* line 193
PrefixOf(host_type, split) == <<host_type, RackOf(split), UlocOf(split)>>

\* the blade id left out of the key
ModelPartWithoutBlade(split) == HostModelOf(split)

\* lines 195-197: the model part of the key, with the blade id for a blade
ModelPartOf(split) ==
    IF BPatternMatch(HostBladeOf(split))
    THEN HostModelOf(split) \o "_" \o HostBladeOf(split)
    ELSE HostModelOf(split)

TmplInit ==
    /\ tHost \in HostNames
    /\ tType \in HostTypes
    /\ \E present \in SUBSET KeyUniverse : \E empty \in SUBSET present :
          definitions = [k \in present |-> IF k \in empty THEN <<>> ELSE ListOf(k)]
    /\ tTried = <<>>
    /\ tResult = [kind |-> "pending", interfaces |-> <<>>]

GetInterfacesByType ==
    /\ tResult.kind = "pending"
    /\ LET prefix == PrefixOf(tType, tHost)
           r == LookupFrom(definitions, prefix, ModelPartOf(tHost), Len(prefix), <<>>)
       IN  /\ tTried' = r.tried
           /\ tResult' = [kind |-> r.kind, interfaces |-> r.interfaces]
    /\ UNCHANGED <<tHost, tType, definitions>>

TmplFrame ==
    UNCHANGED <<poolVars, orchVars, bootVars, jobVars, powerVars, clearVars, cacheVars, locVars,
                chgVars, otbVars>>
InitTmpl == TmplInit /\ PoolParked /\ OrchParked /\ BootParked /\ JobParked
    /\ PowerParked /\ ClearParked /\ CacheParked /\ LocParked
    /\ ChgParked /\ OtbParked
NextTmpl == GetInterfacesByType /\ TmplFrame
SpecTmpl == InitTmpl /\ [][NextTmpl]_vars

(* ---- observations used by the template claims ---- *)
BladeHost == BPatternMatch(HostBladeOf(tHost))
TmplDone == tResult.kind \in {"returned", "raised"}

\* the position of the first of `keys` that is in `held`, 0 if none is
FirstHit(keys, held) ==
    IF \E j \in DOMAIN keys : keys[j] \in held
    THEN CHOOSE j \in DOMAIN keys :
            keys[j] \in held /\ \A h \in 1..(j - 1) : keys[h] \notin held
    ELSE 0

\* the lookup tried `keys` in order, stopped at the first one in `held` and
\* returned its list, or tried them all and raised
TriedInOrder(keys, held) ==
    LET hit == FirstHit(keys, held)
    IN  IF hit = 0
        THEN tTried = keys /\ tResult.kind = "raised"
        ELSE /\ tTried = SubSeq(keys, 1, hit)
             /\ tResult = [kind |-> "returned", interfaces |-> definitions[keys[hit]]]

\* the four keys of the claim: type_rack_uloc_model_blade, type_rack_uloc_model,
\* type_rack_model, type_model
StatedKeys ==
    LET m == HostModelOf(tHost)
    IN  <<KeyOf(<<tType, RackOf(tHost), UlocOf(tHost)>>, m \o "_" \o HostBladeOf(tHost)),
          KeyOf(<<tType, RackOf(tHost), UlocOf(tHost)>>, m),
          KeyOf(<<tType, RackOf(tHost)>>, m),
          KeyOf(<<tType>>, m)>>

\* the three keys the blade suffix stays on: type_rack_uloc_model_blade,
\* type_rack_model_blade, type_model_blade
BladeKeys ==
    LET mb == HostModelOf(tHost) \o "_" \o HostBladeOf(tHost)
    IN  <<KeyOf(<<tType, RackOf(tHost), UlocOf(tHost)>>, mb),
          KeyOf(<<tType, RackOf(tHost)>>, mb),
          KeyOf(<<tType>>, mb)>>

Present == DOMAIN definitions
PresentNonEmpty == {k \in DOMAIN definitions : definitions[k] # <<>>}

\* C9 as stated: for a host with a b0N blade id the lookup tries the four keys
\* type_rack_uloc_model_blade, type_rack_uloc_model, type_rack_model, type_model
\* in order, returns the list of the first key present and fails iff none is.
C9_FourKeysAsStated ==
    (TmplDone /\ BladeHost) => TriedInOrder(StatedKeys, Present)

\* C9 (amended): for a host with a b0N blade id the lookup tries the three keys
\* type_rack_uloc_model_blade, type_rack_model_blade, type_model_blade in
\* order, returns the list of the first key present with a non-empty value and
\* fails iff none of the three is.
C9_BladeKeysInOrder ==
    (TmplDone /\ BladeHost) => TriedInOrder(BladeKeys, PresentNonEmpty)

\* host rack1-u2-b03-640, the most specific key absent, the second one empty:
\* the lookup fell back to foreman_640_b03_interfaces although the keys
\* without the blade suffix are present
C9_Witness ==
    /\ TmplDone /\ tHost = <<"rack1", "u2", "b03", "640">> /\ tType = "foreman"
    /\ tTried = <<"foreman_rack1_u2_640_b03_interfaces",
                  "foreman_rack1_640_b03_interfaces",
                  "foreman_640_b03_interfaces">>
    /\ "foreman_rack1_640_b03_interfaces" \in DOMAIN definitions
    /\ "foreman_rack1_u2_640_interfaces" \in DOMAIN definitions
    /\ tResult = [kind |-> "returned",
                  interfaces |-> ListOf("foreman_640_b03_interfaces")]


-----------------------------------------------------------------------------
(***************************************************************************)
(* JOB POLL LOOP.  get_job_status (274-306) over get_request (106-125),    *)
(* which is wrapped in alru_cache(maxsize=64): one cache for the class,    *)
(* keyed by (self, uri, _continue).  A response is [status, message],      *)
(* message being the body's "Message" field, NoMessage when the body has   *)
(* none; Absent is the None a tolerant get_request returns on a            *)
(* communication failure.                                                  *)
(***************************************************************************)
SuccessMessage == "Task successfully scheduled."
NoMessage == ""
Messages == {SuccessMessage, "Task successfully scheduled", "Job in progress."}
Absent == [status |-> 0, message |-> NoMessage]
NoEntry == [status |-> -1, message |-> NoMessage]
Responses == [status : {200, 404}, message : Messages \cup {NoMessage}]
Answers == Responses \cup {Absent}

\* a comparison that also accepts the message without its full stop
IsScheduledLoose(message) ==
    message \in {SuccessMessage, "Task successfully scheduled"}

\* line 297: data["Message"] == "Task successfully scheduled."
IsScheduled(message) == message = SuccessMessage

\* a loop that gives up at the first absent response
JobStepAbsentFatal(resp) ==
    CASE resp = Absent -> "exhausted"
      [] resp.status # 200 -> "failed_status"
      [] resp.message = NoMessage -> "KeyError"
      [] resp.message = SuccessMessage -> "returned"
      [] OTHER -> "loop"

\* a loop that treats a non-200 status like an unscheduled job
JobStepNon200Continues(resp) ==
    CASE resp = Absent -> "loop"
      [] resp.status # 200 -> "loop"
      [] resp.message = NoMessage -> "KeyError"
      [] resp.message = SuccessMessage -> "returned"
      [] OTHER -> "loop"

\* lines 280-303: where one iteration that got `resp` leaves the loop
JobStep(resp) ==
    CASE resp = Absent -> "loop"                        \* `continue` (280-281)
      [] resp.status # 200 -> "failed_status"           \* error_handler raises
      [] resp.message = NoMessage -> "KeyError"         \* data["Message"]
      [] IsScheduled(resp.message) -> "returned"
      [] OTHER -> "loop"

JobInit ==
    /\ jobPc = "loop"
    /\ jobRetries \in 0..MaxJobRetries
    /\ jobIter = 0 /\ jobSeen = <<>> /\ jobSent = <<>> /\ jobCtl = <<>>
    /\ jobCache = NoEntry

\* one iteration of `for _ in range(self.retries)`: get_request answers from
\* the cache when it holds the key, else sends the GET and caches what it
\* returns (None included)
JobIteration ==
    /\ jobPc = "loop" /\ jobIter < jobRetries
    /\ \E answer \in Answers :
        LET hit == jobCache # NoEntry
            resp == IF hit THEN jobCache ELSE answer
        IN  /\ jobCache' = resp
            /\ jobSeen' = Append(jobSeen, resp)
            /\ jobCtl' = Append(jobCtl, answer)
            /\ jobSent' = Append(jobSent, ~hit)
            /\ jobPc' = JobStep(resp)
    /\ jobIter' = jobIter + 1
    /\ UNCHANGED jobRetries

\* the loop ran out: lines 305-306
JobExhausted ==
    /\ jobPc = "loop" /\ jobIter = jobRetries
    /\ jobPc' = "exhausted"
    /\ UNCHANGED <<jobRetries, jobIter, jobSeen, jobSent, jobCache, jobCtl>>

\* GETs of the other sessions of the run fill the shared cache of 64 entries
\* and push this session's entry out
JobCacheEvicted ==
    /\ jobPc = "loop" /\ jobCache # NoEntry
    /\ jobCache' = NoEntry
    /\ UNCHANGED <<jobPc, jobRetries, jobIter, jobSeen, jobSent, jobCtl>>

JobFrame ==
    UNCHANGED <<poolVars, orchVars, bootVars, tmplVars, powerVars, clearVars, cacheVars, locVars,
                chgVars, otbVars>>
InitJob == JobInit /\ PoolParked /\ OrchParked /\ BootParked /\ TmplParked
    /\ PowerParked /\ ClearParked /\ CacheParked /\ LocParked
    /\ ChgParked /\ OtbParked
NextJob ==
    \/ JobIteration /\ JobFrame
    \/ JobExhausted /\ JobFrame
    \/ JobCacheEvicted /\ JobFrame
SpecJob == InitJob /\ [][NextJob]_vars

(* ---- observations used by the job claims ---- *)
\* a 200 response whose Message is exactly "Task successfully scheduled."
SuccessResponse(r) == r.status = 200 /\ r.message = "Task successfully scheduled."

JobSuccessOnlyOnFirstSuccessResponse ==
    /\ \A k \in DOMAIN jobSeen :
          SuccessResponse(jobSeen[k]) => k = jobIter /\ jobPc = "returned"
    /\ jobPc = "returned" => jobIter >= 1 /\ SuccessResponse(jobSeen[jobIter])

\* C10: get_job_status returns success in the first iteration whose response
\* is 200 with Message exactly "Task successfully scheduled.", sends no GET
\* after it, and returns success in no other case.
C10_SuccessOnFirstScheduled ==
    /\ []JobSuccessOnlyOnFirstSuccessResponse
    /\ [][jobPc = "returned" => UNCHANGED <<jobPc, jobIter, jobSeen, jobSent>>]_vars

\* success in the second iteration, after a first answer with another
\* message, with budget left
C10_Witness ==
    /\ jobPc = "returned" /\ jobIter = 2 /\ jobRetries > 2
    /\ jobSeen[1] = [status |-> 200, message |-> "Task successfully scheduled"]
    /\ jobSent = <<TRUE, TRUE>>

\* an iteration that neither succeeds nor fails: no response, or a 200 whose
\* Message is something else than "Task successfully scheduled."
Unscheduled(r) ==
    \/ r = Absent
    \/ r.status = 200 /\ r.message \notin {SuccessMessage, NoMessage}

\* C11: get_job_status never runs more than `retries` iterations; when every
\* iteration is absent or a 200 with another Message it runs exactly
\* `retries` iterations, each consuming one unit, and then fails; with
\* retries = 0 it fails without any request.
C11_BudgetBoundsIterations ==
    /\ jobIter <= jobRetries
    /\ Len(jobSeen) = jobIter /\ Len(jobSent) = jobIter
    /\ jobPc = "exhausted" =>
          jobIter = jobRetries /\ \A k \in DOMAIN jobSeen : Unscheduled(jobSeen[k])
    /\ (\A k \in DOMAIN jobSeen : Unscheduled(jobSeen[k])) =>
          /\ jobPc \in {"loop", "exhausted"}
          /\ jobPc = "loop" => ENABLED NextJob
    /\ (jobRetries = 0 /\ jobPc # "loop") => jobPc = "exhausted" /\ jobSent = <<>>

\* the whole budget spent on an absent response and on another message
C11_Witness ==
    /\ jobPc = "exhausted" /\ jobRetries = 3 /\ jobIter = 3
    /\ Absent \in Range(jobSeen)
    /\ [status |-> 200, message |-> "Job in progress."] \in Range(jobSeen)

\* a response that is present and whose status is not 200
Non200(r) == r # Absent /\ r.status # 200

JobFailsOnNon200 ==
    \A k \in DOMAIN jobSeen :
        Non200(jobSeen[k]) => k = jobIter /\ jobPc = "failed_status"

\* C12: a response with a status other than 200 makes the poll fail in that
\* same iteration: no later iteration runs, no further GET is sent and
\* success is not returned, whatever budget remains.
C12_Non200FailsAtOnce ==
    /\ []JobFailsOnNon200
    /\ [][jobPc = "failed_status" =>
            UNCHANGED <<jobPc, jobIter, jobSeen, jobSent>>]_vars

\* a 404 in the second iteration with one unit of budget left
C12_Witness ==
    /\ jobPc = "failed_status" /\ jobIter = 2 /\ jobRetries = 3
    /\ jobSeen[1] = Absent /\ jobSeen[2].status = 404


-----------------------------------------------------------------------------
(***************************************************************************)
(* POWER STATE CONTROLLER.  get_power_state (512-532), set_power_state     *)
(* (534-565), send_reset (807-834), reboot_server (836-867) and            *)
(* polling_host_state (1059-1075) of one session.  The tolerant GET of the *)
(* system resource goes through get_request, hence through its cache.      *)
(* pwLog records, in program order, every power-state read and every       *)
(* reset: [ev, poll, resp, value, sent]: resp is what get_request handed   *)
(* back, value what get_power_state made of it (or the reset type), and    *)
(* `sent` tells whether an HTTP request left the session.                  *)
(***************************************************************************)
MaxTypes == 2

NoFetch == "none"
\* what the tolerant GET of the system resource yields: no response, a
\* status other than 200, a 200 body without PowerState, or a PowerState
PowerFetches == {"absent", "non200", "nostate", "On", "Off"}

Targets == {"on", "ON", "off", "Off", "cycle"}
ResetTypeNames == {"ForceOff", "GracefulRestart", "ForceRestart", "OemRestart"}
TypeLists == {q \in SeqsUpTo(ResetTypeNames, MaxTypes) : NoRepeats(q)}

\* what get_reset_types (308-331) ends with: the advertised list, None
\* (line 328, no "ResetType@Redfish.AllowableValues" in the action), or the
\* BadfishException of its get_request
ResetTypeAnswers ==
    [kind : {"list"}, types : TypeLists]
        \cup {[kind |-> "None", types |-> <<>>], [kind |-> "comm", types |-> <<>>]}

Calls ==
    {[op |-> "get_power_state", target |-> "", graceful |-> FALSE]}
        \cup [op : {"set_power_state"}, target : Targets, graceful : {FALSE}]
        \cup [op : {"reboot_server"}, target : {""}, graceful : BOOLEAN]

\* str.lower() on the strings of this component
Lower(str) ==
    CASE str \in {"on", "ON", "On"} -> "on"
      [] str \in {"off", "Off"} -> "off"
      [] str = "Down" -> "down"
      [] OTHER -> str

\* "restart" in rt.lower()  (line 841)
ContainsRestart(rt) == rt \in {"GracefulRestart", "ForceRestart", "OemRestart"}

\* get_request (106-125): the cached response when the key is cached
CachedGet(cache, answer) == IF cache # NoFetch THEN cache ELSE answer

\* a get_power_state that raises on a status other than 200
GetPowerStateStrict(resp) ==
    CASE resp = "absent" -> "Down"
      [] resp \in {"non200", "nostate"} -> "BadfishException"
      [] OTHER -> resp

\* get_power_state (512-532): the value returned, or the exception raised
GetPowerStateValue(resp) ==
    CASE resp \in {"absent", "non200"} -> "Down"
      [] resp = "nostate" -> "BadfishException"
      [] OTHER -> resp

\* the first type of the list whose name contains "restart", cur if none
FirstRestartType(types, cur) ==
    IF \E i \in DOMAIN types : ContainsRestart(types[i])
    THEN types[CHOOSE i \in DOMAIN types :
                  /\ ContainsRestart(types[i])
                  /\ \A j \in 1..(i - 1) : ~ContainsRestart(types[j])]
    ELSE cur

\* lines 840-842: for rt in _reset_types: if "restart" in rt.lower(): reset_type = rt
RECURSIVE ResetTypeLoop(_, _)
ResetTypeLoop(types, cur) ==
    IF types = <<>> THEN cur
    ELSE ResetTypeLoop(Tail(types),
                       IF ContainsRestart(Head(types)) THEN Head(types) ELSE cur)

\* lines 838-842
SelectResetType(types) ==
    IF "GracefulRestart" \in Range(types) THEN "GracefulRestart"
    ELSE ResetTypeLoop(types, "GracefulRestart")

\* a reboot that takes the graceful path whatever `graceful` says
AfterStateAlwaysGraceful(power_state, graceful) ==
    CASE Lower(power_state) = "on" -> "restart"
      [] Lower(power_state) = "off" -> "on_direct"
      [] OTHER -> "done"

\* a reboot that forces an Off host off before switching it on
AfterStateOffForces(power_state, graceful) ==
    CASE Lower(power_state) = "on" /\ graceful -> "restart"
      [] Lower(power_state) = "on" -> "forceoff"
      [] Lower(power_state) = "off" -> "forceoff"
      [] OTHER -> "done"

\* a reboot that switches the host on when its state is unknown
AfterStateUnknownSwitchesOn(power_state, graceful) ==
    CASE Lower(power_state) = "on" /\ graceful -> "restart"
      [] Lower(power_state) = "on" -> "forceoff"
      [] OTHER -> "on_direct"

\* lines 846-866: the branch reboot_server takes on the state it read
AfterState(power_state, graceful) ==
    CASE Lower(power_state) = "on" /\ graceful -> "restart"
      [] Lower(power_state) = "on" -> "forceoff"
      [] Lower(power_state) = "off" -> "on_direct"
      [] OTHER -> "done"

\* a graceful path that never escalates
AfterOffPollNeverEscalates(host_down) == "poll_up"

\* lines 850-856: `if not host_down: ... send_reset("ForceOff")`
AfterOffPoll(host_down) == IF host_down THEN "poll_up" ELSE "escalate"

\* a reboot that never switches the host back on
AfterUpPollNeverOn(host_not_down) == "done"

\* lines 860-863: `if host_not_down: await self.send_reset("On")`
AfterUpPoll(host_not_down) == IF host_not_down THEN "on" ELSE "done"

\* a set_power_state that sends On whatever the target
SetResetTypeAlwaysOn(state) == "On"

\* lines 560-563
SetResetType(state) ==
    CASE Lower(state) = "off" -> "ForceOff"
      [] Lower(state) = "on" -> "On"

\* the FetchResponses class of a response of PowerFetches
FetchKind(resp) == IF resp \in {"On", "Off"} THEN "state" ELSE resp

\* a poll that takes every target as "equal to"
DesiredStateEqualsOnly(current_state, state, equals) ==
    Lower(current_state) = Lower(state)

\* polling_host_state (1065-1068): desired_state of one observation
DesiredState(current_state, state, equals) ==
    IF equals THEN Lower(current_state) = Lower(state)
    ELSE Lower(current_state) # Lower(state)

\* a loop that goes on after the target was observed
PollGoesOnIgnoresDesired(desired_state, count, retries) == count < retries

\* lines 1063 and 1070-1072: `for count in range(self.retries)` with `break`
\* once desired_state holds
PollGoesOn(desired_state, count, retries) == ~desired_state /\ count < retries

\* progress_bar (77, 80): int(round(float(value) / end_value * 100)), round
\* taking a half to the even neighbour
Percent(value, end_value) ==
    LET q == (100 * value) \div end_value
        r == (100 * value) % end_value
    IN  CASE 2 * r < end_value -> q
          [] 2 * r > end_value -> q + 1
          [] OTHER -> IF q % 2 = 0 THEN q ELSE q + 1

Ev(ev, poll, resp, value, sent) ==
    [ev |-> ev, poll |-> poll, resp |-> resp, value |-> value, sent |-> sent]

Done(ret) == pwPc' = "done" /\ pwRet' = ret

PowerInit ==
    /\ pwCall \in Calls
    /\ pwPc = "start"
    /\ pwRetries \in 0..MaxRetries
    /\ pwCache = NoFetch /\ pwTypes = <<>> /\ reset_type = ""
    /\ pwLog = <<>> /\ pwCount = 0 /\ pwDesired = FALSE /\ pwRet = "pending"
    /\ pwSleeps = 0 /\ pwBar = <<>> /\ pwPolls = <<>>

\* the whole of get_power_state called on its own (execute_badfish, 1674)
PwGetPowerState ==
    /\ pwPc = "start" /\ pwCall.op = "get_power_state"
    /\ \E answer \in PowerFetches :
        LET resp == CachedGet(pwCache, answer)
        IN  /\ pwCache' = resp
            /\ pwLog' = Append(pwLog, Ev("obs", "get", resp, GetPowerStateValue(resp),
                                         pwCache = NoFetch))
            /\ Done(GetPowerStateValue(resp))
    /\ UNCHANGED <<pwCall, pwRetries, pwTypes, reset_type, pwCount, pwDesired,
                   pwSleeps, pwBar, pwPolls>>

\* set_power_state with a target that is neither on nor off (535-537)
PwSetInvalid ==
    /\ pwPc = "start" /\ pwCall.op = "set_power_state"
    /\ Lower(pwCall.target) \notin {"on", "off"}
    /\ Done("BadfishException")
    /\ UNCHANGED <<pwCall, pwRetries, pwCache, pwTypes, reset_type, pwLog,
                   pwCount, pwDesired, pwSleeps, pwBar, pwPolls>>

\* set_power_state up to its send_reset (539-558)
PwSetFetch ==
    /\ pwPc = "start" /\ pwCall.op = "set_power_state"
    /\ Lower(pwCall.target) \in {"on", "off"}
    /\ \E answer \in PowerFetches :
        LET resp == CachedGet(pwCache, answer)
            next == SetPowerState(Lower(pwCall.target), FetchKind(resp))
        IN  /\ pwCache' = resp
            /\ pwLog' = Append(pwLog, Ev("obs", "set", resp, resp, pwCache = NoFetch))
            /\ CASE next = "return" -> Done("None")
                 [] next = "reset" -> pwPc' = "set_reset" /\ pwRet' = resp
                 [] OTHER -> Done(next)
    /\ UNCHANGED <<pwCall, pwRetries, pwTypes, reset_type, pwCount, pwDesired,
                   pwSleeps, pwBar, pwPolls>>

\* reboot_server, lines 837-842
PwGetResetTypes ==
    /\ pwPc = "start" /\ pwCall.op = "reboot_server"
    /\ \E a \in ResetTypeAnswers :
        /\ pwLog' = Append(pwLog, Ev("types", "none", "", a.kind, TRUE))
        /\ CASE a.kind = "comm" ->
                  Done("BadfishException") /\ UNCHANGED <<pwTypes, reset_type>>
             [] a.kind = "None" ->       \* `reset_type not in None`
                  Done("TypeError") /\ UNCHANGED <<pwTypes, reset_type>>
             [] OTHER ->
                  /\ pwTypes' = a.types
                  /\ reset_type' = SelectResetType(a.types)
                  /\ pwPc' = "state" /\ UNCHANGED pwRet
    /\ UNCHANGED <<pwCall, pwRetries, pwCache, pwCount, pwDesired, pwSleeps,
                   pwBar, pwPolls>>

\* reboot_server, lines 845-848 and the branch taken
PwReadState ==
    /\ pwPc = "state"
    /\ \E answer \in PowerFetches :
        LET resp == CachedGet(pwCache, answer)
            power_state == GetPowerStateValue(resp)
        IN  /\ pwCache' = resp
            /\ pwLog' = Append(pwLog, Ev("obs", "first", resp, power_state,
                                         pwCache = NoFetch))
            /\ IF power_state = "BadfishException" THEN Done(power_state)
               ELSE LET next == AfterState(power_state, pwCall.graceful)
                    IN  IF next = "done" THEN Done("True")
                        ELSE pwPc' = next /\ UNCHANGED pwRet
    /\ UNCHANGED <<pwCall, pwRetries, pwTypes, reset_type, pwCount, pwDesired,
                   pwSleeps, pwBar, pwPolls>>

\* the reset type of the send_reset call at each position
TypeAt(pc) ==
    CASE pc = "restart" -> reset_type
      [] pc \in {"forceoff", "escalate"} -> "ForceOff"
      [] pc \in {"on", "on_direct"} -> "On"
      [] pc = "set_reset" -> SetResetType(pwCall.target)

\* where the caller goes on after send_reset returned
AfterReset(pc) ==
    CASE pc = "restart" -> "poll_off"
      [] pc \in {"forceoff", "escalate"} -> "poll_up"
      [] OTHER -> "done"

\* one send_reset call (807-834)
PwSendReset ==
    /\ pwPc \in {"restart", "forceoff", "escalate", "on", "on_direct", "set_reset"}
    /\ \E r \in ResetResponses :
        /\ pwLog' = Append(pwLog, Ev("reset", "none", "", TypeAt(pwPc), TRUE))
        /\ IF SendReset(r) # "none" THEN Done(SendReset(r))
           ELSE IF AfterReset(pwPc) = "done"
                THEN Done(IF pwPc = "set_reset" THEN pwRet ELSE "True")
                ELSE pwPc' = AfterReset(pwPc) /\ UNCHANGED pwRet
    /\ pwCount' = 0 /\ pwDesired' = FALSE /\ pwSleeps' = 0 /\ pwBar' = <<>>
    /\ UNCHANGED <<pwCall, pwRetries, pwCache, pwTypes, reset_type, pwPolls>>

\* one iteration of polling_host_state's loop (1063-1072)
PwPollIteration ==
    /\ pwPc \in {"poll_off", "poll_up"}
    /\ PollGoesOn(pwDesired, pwCount, pwRetries)
    /\ \E answer \in PowerFetches :
        LET resp == CachedGet(pwCache, answer)
            current_state == GetPowerStateValue(resp)
            state == IF pwPc = "poll_off" THEN "Off" ELSE "Down"
        IN  /\ pwCache' = resp
            /\ pwLog' = Append(pwLog, Ev("obs", state, resp, current_state,
                                         pwCache = NoFetch))
            /\ IF current_state = "BadfishException"
               THEN /\ Done(current_state)
                    /\ UNCHANGED <<pwDesired, pwSleeps, pwBar>>
               ELSE LET desired_state == DesiredState(current_state, state,
                                                      pwPc = "poll_off")
                    IN  /\ pwDesired' = desired_state
                        /\ pwSleeps' = pwSleeps + 1               \* line 1069
                        /\ pwBar' = Append(pwBar,
                                IF desired_state
                                THEN Percent(pwRetries, pwRetries)  \* line 1071
                                ELSE Percent(pwCount, pwRetries))   \* line 1073
                        /\ UNCHANGED <<pwPc, pwRet>>
    /\ pwCount' = pwCount + 1
    /\ UNCHANGED <<pwCall, pwRetries, pwTypes, reset_type, pwPolls>>

\* polling_host_state returns desired_state (1074) and reboot_server branches
PwPollReturn ==
    /\ pwPc \in {"poll_off", "poll_up"}
    /\ ~PollGoesOn(pwDesired, pwCount, pwRetries)
    /\ LET next == IF pwPc = "poll_off" THEN AfterOffPoll(pwDesired)
                   ELSE AfterUpPoll(pwDesired)
       IN  IF next = "done" THEN Done("True")
           ELSE pwPc' = next /\ UNCHANGED pwRet
    /\ pwPolls' = Append(pwPolls,
            [state |-> IF pwPc = "poll_off" THEN "Off" ELSE "Down",
             equals |-> pwPc = "poll_off", count |-> pwCount,
             sleeps |-> pwSleeps, bar |-> pwBar, ret |-> pwDesired])
    /\ pwCount' = 0 /\ pwDesired' = FALSE /\ pwSleeps' = 0 /\ pwBar' = <<>>
    /\ UNCHANGED <<pwCall, pwRetries, pwCache, pwTypes, reset_type, pwLog>>

\* GETs of the other sessions of the run fill the shared cache of 64 entries
\* and push this session's entry out
PwCacheEvicted ==
    /\ pwPc \notin {"start", "done"} /\ pwCache # NoFetch
    /\ pwCache' = NoFetch
    /\ UNCHANGED <<pwCall, pwPc, pwRetries, pwTypes, reset_type, pwLog, pwCount,
                   pwDesired, pwRet, pwSleeps, pwBar, pwPolls>>

PowerFrame ==
    UNCHANGED <<poolVars, orchVars, bootVars, tmplVars, jobVars, clearVars, cacheVars, locVars,
                chgVars, otbVars>>
InitPower == PowerInit /\ PoolParked /\ OrchParked /\ BootParked /\ TmplParked
    /\ JobParked /\ ClearParked /\ CacheParked /\ LocParked
    /\ ChgParked /\ OtbParked
NextPower ==
    \/ PwGetPowerState /\ PowerFrame
    \/ PwSetInvalid /\ PowerFrame
    \/ PwSetFetch /\ PowerFrame
    \/ PwGetResetTypes /\ PowerFrame
    \/ PwReadState /\ PowerFrame
    \/ PwSendReset /\ PowerFrame
    \/ PwPollIteration /\ PowerFrame
    \/ PwPollReturn /\ PowerFrame
    \/ PwCacheEvicted /\ PowerFrame
SpecPower == InitPower /\ [][NextPower]_vars

(* ---- observations used by the power claims ---- *)
IsReset(e) == e.ev = "reset"
IsOffObs(e) == e.ev = "obs" /\ e.poll = "Off"
IsUpObs(e) == e.ev = "obs" /\ e.poll = "Down"
Values(q) == [i \in DOMAIN q |-> q[i].value]
\* the reset types sent so far, in order
Sent == Values(SelectSeq(pwLog, IsReset))
\* what the observations of polling_host_state("Off") returned
OffObs == Values(SelectSeq(pwLog, IsOffObs))
\* what the observations of polling_host_state("Down", False) returned
UpObs == Values(SelectSeq(pwLog, IsUpObs))
OffSeen == "Off" \in Range(OffObs)
UpSeen == \E i \in DOMAIN UpObs : UpObs[i] \notin {"Down", "BadfishException"}

\* reboot_server(graceful) that read the power state `state` at line 845
RebootRead(graceful, state) ==
    /\ pwCall.op = "reboot_server" /\ pwCall.graceful = graceful
    /\ Len(pwLog) >= 2 /\ pwLog[2].poll = "first" /\ pwLog[2].value = state

OffPollFailed ==
    /\ Len(pwLog) >= 3
    /\ pwPc = "done" => Len(pwLog) > 3      \* the restart reset did not fail
    /\ pwPc \notin {"restart", "poll_off", "escalate"}
    /\ Len(OffObs) = pwRetries /\ ~OffSeen
    /\ "BadfishException" \notin Range(OffObs)

\* C14: graceful reboot of an On host: when none of the `retries`
\* observations after the restart reset is Off, ForceOff is sent right after
\* the poll, before reboot_server completes; ForceOff is sent in no other
\* case.
C14_ForceOffIffOffNeverSeen ==
    RebootRead(TRUE, "On") =>
        /\ OffPollFailed =>
              /\ Len(Sent) >= 2 /\ Sent[2] = "ForceOff"
              /\ pwLog[3 + pwRetries + 1] = Ev("reset", "none", "", "ForceOff", TRUE)
        /\ "ForceOff" \in Range(Sent) => OffPollFailed

\* two observations, neither Off, then ForceOff
C14_Witness ==
    /\ RebootRead(TRUE, "On") /\ pwPc = "done" /\ pwRetries = 2
    /\ OffObs = <<"On", "Down">>
    /\ Sent = <<"GracefulRestart", "ForceOff", "On">>

\* C15: reboot_server(graceful=False) on an On host sends ForceOff as its
\* first reset, with no poll for Off before it, and never a restart type.
C15_ForcedPathForceOffFirst ==
    RebootRead(FALSE, "On") =>
        /\ OffObs = <<>>
        /\ \A i \in DOMAIN Sent : ~ContainsRestart(Sent[i])
        /\ Len(pwLog) >= 3 => pwLog[3] = Ev("reset", "none", "", "ForceOff", TRUE)
        /\ pwPc = "done" => Len(Sent) >= 1

C15_Witness ==
    /\ RebootRead(FALSE, "On") /\ pwPc = "done" /\ pwRet = "True"
    /\ Sent = <<"ForceOff", "On">>
    /\ ContainsRestart(reset_type)

\* C16: reboot_server on a host whose power state is Off sends exactly one
\* reset, On, polls nothing, and sends neither a restart type nor ForceOff,
\* for both values of graceful.
C16_OffHostOnlyOn ==
    \A graceful \in BOOLEAN :
        RebootRead(graceful, "Off") =>
            /\ Sent \in {<<>>, <<"On">>}
            /\ pwPc = "done" => Sent = <<"On">>
            /\ OffObs = <<>> /\ UpObs = <<>>
            /\ Len(pwLog) = 2 + Len(Sent)

C16_Witness ==
    /\ RebootRead(TRUE, "Off") /\ pwPc = "done" /\ pwRet = "True"
    /\ Sent = <<"On">> /\ pwRetries > 0

\* C17: graceful reboot of an On host: the first reset sent is
\* GracefulRestart when it is advertised, otherwise the first advertised
\* type, in advertised order, whose name contains "restart".
C17_FirstAdvertisedRestart ==
    (RebootRead(TRUE, "On") /\ Len(Sent) >= 1) =>
        Sent[1] = IF "GracefulRestart" \in Range(pwTypes) THEN "GracefulRestart"
                  ELSE FirstRestartType(pwTypes, Sent[1])

(* set_power_state *)
SetRead(resp) ==
    /\ pwCall.op = "set_power_state" /\ Len(pwLog) >= 1 /\ pwLog[1].resp = resp

\* C18: set_power_state: a target other than on/off (case-insensitive) fails
\* before any request is sent; for target off with an absent fetch it
\* returns success without sending a reset; otherwise, when the current
\* state is fetched, it sends exactly one reset, ForceOff for off and On for
\* on.
C18_SetPowerState ==
    pwCall.op = "set_power_state" =>
        /\ pwCall.target \notin {"on", "ON", "off", "Off"} =>
              /\ pwLog = <<>>
              /\ pwPc = "done" => pwRet = "BadfishException"
        /\ (pwCall.target \in {"off", "Off"} /\ SetRead("absent")) =>
              pwPc = "done" /\ pwRet = "None" /\ Len(pwLog) = 1
        /\ \A state \in {"On", "Off"} :
              SetRead(state) =>
                  LET type == IF pwCall.target \in {"off", "Off"}
                              THEN "ForceOff" ELSE "On"
                  IN  /\ Sent \in {<<>>, <<type>>}
                      /\ pwPc = "done" => Sent = <<type>>
                      /\ pwLog[1].sent /\ Len(pwLog) = 1 + Len(Sent)

C18_Witness ==
    /\ pwCall.target = "Off" /\ SetRead("On") /\ pwPc = "done"
    /\ Sent = <<"ForceOff">> /\ pwRet = "On"

\* C19: get_power_state returns Down when the tolerant fetch is absent or
\* its status is not 200, the PowerState field of a 200 response that has
\* one, and fails when a 200 response has none; a communication failure
\* never makes it fail.
C19_GetPowerState ==
    \A i \in DOMAIN pwLog :
        (pwLog[i].ev = "obs" /\ pwLog[i].poll # "set") =>
            /\ pwLog[i].resp \in {"absent", "non200"} => pwLog[i].value = "Down"
            /\ pwLog[i].resp \in {"On", "Off"} => pwLog[i].value = pwLog[i].resp
            /\ pwLog[i].resp = "nostate" <=> pwLog[i].value = "BadfishException"
            /\ (pwCall.op = "get_power_state" /\ pwPc = "done") =>
                  pwRet = pwLog[i].value

C19_Witness ==
    /\ pwCall.op = "get_power_state" /\ pwPc = "done"
    /\ pwLog[1].resp = "non200" /\ pwLog[1].sent /\ pwRet = "Down"


-----------------------------------------------------------------------------
(***************************************************************************)
(* JOB QUEUE CLEARING.  clear_job_queue (755-773) with get_job_queue       *)
(* (264-272), check_supported_idrac_version (681-690),                     *)
(* delete_job_queue_dell (700-722), delete_job_queue_force (724-733) and   *)
(* clear_job_list (735-753).  One session calls clear_job_queue more than  *)
(* once: boot_to calls it at line 933 and send_one_time_boot again at line *)
(* 997 after every 400.  get_job_queue and the capability probe go through *)
(* get_request, hence through its cache.  Job ids are numbered 1, 2, ...;  *)
(* a request is [method, target, job, status], status 0 meaning that the   *)
(* request failed to communicate and job being 0 unless the request is the *)
(* DELETE of one job id.                                                   *)
(***************************************************************************)
MaxJobs == 2
MaxClears == 2

NoProbe == -1
NoList == [hit |-> FALSE, jobs |-> <<>>]
QueueOf(n) == [i \in 1..n |-> i]
ProbeStatuses == {0, 200, 404}
PostStatuses == {0, 200, 400}
DeleteStatuses == {0, 200, 400, 404}

Req(method, target, status) ==
    [method |-> method, target |-> target, job |-> 0, status |-> status]
\* the DELETE of one job id (741-743)
JobReq(job, status) ==
    [method |-> "DELETE", target |-> "Job", job |-> job, status |-> status]

\* a bulk clear that never forces
BulkJobIdPlain(force) == "JID_CLEARALL"

\* job id of the bulk-clear POST (705-707)
BulkJobId(force) == IF force THEN "JID_CLEARALL_FORCE" ELSE "JID_CLEARALL"

\* the sequence q without the job id j
Without(q, j) == SelectSeq(q, LAMBDA x : x # j)

ClrDone(ret) == clrPc' = "done" /\ clrRet' = ret

\* a BadfishException raised by clear_job_list: caught by the except of line
\* 766 when the call is the one inside the try block (line 764), which then
\* calls clear_job_list again (line 768)
ClrListRaises ==
    IF clrInTry
    THEN /\ clrPc' = "list" /\ clrInTry' = FALSE /\ clrIdx' = 0
         /\ clrFailed' = FALSE /\ UNCHANGED clrRet
    ELSE ClrDone("BadfishException") /\ UNCHANGED <<clrInTry, clrIdx, clrFailed>>

ClearInit ==
    /\ ctlQueue \in {QueueOf(n) : n \in 0..MaxJobs}
    /\ clrCache = NoList /\ clrProbe = NoProbe /\ clrRuns = 0
    /\ clrPc = "idle" /\ clrForce = FALSE /\ clrQueue = <<>> /\ clrEmpty = FALSE
    /\ clrLog = <<>> /\ clrIdx = 0 /\ clrFailed = FALSE /\ clrInTry = FALSE
    /\ clrRet = "pending"

\* between two invocations the controller queues a job (a pending BIOS
\* setting, 984-987)
CtlJobQueued ==
    /\ clrPc \in {"idle", "done"} /\ Len(ctlQueue) < MaxJobs
    /\ \E j \in 1..MaxJobs :
        /\ \A i \in DOMAIN ctlQueue : ctlQueue[i] # j
        /\ ctlQueue' = Append(ctlQueue, j)
    /\ UNCHANGED <<clrCache, clrProbe, clrRuns, clrPc, clrForce, clrQueue,
                   clrEmpty, clrLog, clrIdx, clrFailed, clrInTry, clrRet>>

\* clear_job_queue(force) up to `if _job_queue or force` (756-757, 769-773)
ClrGetJobQueue ==
    /\ clrPc \in {"idle", "done"} /\ clrRuns < MaxClears
    /\ clrRuns' = clrRuns + 1
    /\ clrEmpty' = (ctlQueue = <<>>)
    /\ clrIdx' = 0 /\ clrFailed' = FALSE /\ clrInTry' = FALSE
    /\ \E force \in BOOLEAN, status \in {0, 200} :
        /\ clrForce' = force
        /\ IF clrCache.hit
           THEN /\ clrLog' = <<>> /\ clrQueue' = clrCache.jobs
                /\ UNCHANGED clrCache
                /\ IF clrCache.jobs # <<>> \/ force
                   THEN clrPc' = "probe" /\ clrRet' = "pending"
                   ELSE ClrDone("None")
           ELSE /\ clrLog' = <<Req("GET", "Jobs", status)>>
                /\ IF status = 0
                   THEN /\ ClrDone("BadfishException")
                        /\ clrQueue' = <<>> /\ UNCHANGED clrCache
                   ELSE /\ clrQueue' = ctlQueue
                        /\ clrCache' = [hit |-> TRUE, jobs |-> ctlQueue]
                        /\ IF ctlQueue # <<>> \/ force
                           THEN clrPc' = "probe" /\ clrRet' = "pending"
                           ELSE ClrDone("None")
    /\ UNCHANGED <<ctlQueue, clrProbe>>

\* check_supported_idrac_version (681-690) and the branch of line 759
ClrCheckSupported ==
    /\ clrPc = "probe"
    /\ \E answer \in ProbeStatuses :
        LET hit == clrProbe # NoProbe
            status == IF hit THEN clrProbe ELSE answer
        IN  /\ clrLog' = IF hit THEN clrLog
                         ELSE Append(clrLog, Req("GET", "DellJobService", status))
            /\ IF status = 0
               THEN ClrDone("BadfishException") /\ UNCHANGED clrProbe
               ELSE /\ clrProbe' = status
                    /\ clrPc' = IF status = 200 THEN "bulk" ELSE "generic"
                    /\ UNCHANGED clrRet
    /\ UNCHANGED <<ctlQueue, clrCache, clrRuns, clrForce, clrQueue, clrEmpty,
                   clrIdx, clrFailed, clrInTry>>

\* delete_job_queue_dell (700-722)
ClrDeleteJobQueueDell ==
    /\ clrPc = "bulk"
    /\ \E status \in PostStatuses :
        /\ clrLog' = Append(clrLog, Req("POST", BulkJobId(clrForce), status))
        /\ IF status = 200
           THEN ClrDone("None") /\ ctlQueue' = <<>>
           ELSE ClrDone("BadfishException") /\ UNCHANGED ctlQueue
    /\ UNCHANGED <<clrCache, clrProbe, clrRuns, clrForce, clrQueue, clrEmpty,
                   clrIdx, clrFailed, clrInTry>>

\* a fallback taken on a 400 only
AfterGenericDeleteOn400Only(status) == IF status = 400 THEN "try" ELSE "done"

\* lines 762-768: where clear_job_queue goes on after the generic DELETE:
\* clear_job_list inside the try block on a 400, clear_job_list in the
\* except handler when delete_request raised, else the end
AfterGenericDelete(status) ==
    CASE status = 0 -> "except"
      [] status = 400 -> "try"
      [] OTHER -> "done"

\* delete_job_queue_force (724-733) and lines 762-768
ClrDeleteJobQueueForce ==
    /\ clrPc = "generic"
    /\ \E status \in DeleteStatuses :
        /\ clrLog' = Append(clrLog, Req("DELETE", "JID_CLEARALL_FORCE", status))
        /\ ctlQueue' = IF status = 200 THEN <<>> ELSE ctlQueue
        /\ CASE AfterGenericDelete(status) = "except" ->
                  clrPc' = "list" /\ clrInTry' = FALSE /\ UNCHANGED clrRet
             [] AfterGenericDelete(status) = "try" ->
                  clrPc' = "list" /\ clrInTry' = TRUE /\ UNCHANGED clrRet
             [] OTHER -> ClrDone("None") /\ UNCHANGED clrInTry
    /\ UNCHANGED <<clrCache, clrProbe, clrRuns, clrForce, clrQueue, clrEmpty,
                   clrIdx, clrFailed>>

\* one iteration of clear_job_list's loop (740-745)
ClrDeleteJob ==
    /\ clrPc = "list" /\ clrIdx < Len(clrQueue)
    /\ \E status \in DeleteStatuses :
        LET job == clrQueue[clrIdx + 1]
        IN  /\ clrLog' = Append(clrLog, JobReq(job, status))
            /\ ctlQueue' = IF status = 200 THEN Without(ctlQueue, job) ELSE ctlQueue
            /\ IF status = 0
               THEN ClrListRaises      \* delete_request raises
               ELSE /\ clrIdx' = clrIdx + 1
                    /\ clrFailed' = (clrFailed \/ status # 200)
                    /\ UNCHANGED <<clrPc, clrRet, clrInTry>>
    /\ UNCHANGED <<clrCache, clrProbe, clrRuns, clrForce, clrQueue, clrEmpty>>

\* the end of clear_job_list (747-753)
ClrListEnd ==
    /\ clrPc = "list" /\ clrIdx = Len(clrQueue)
    /\ IF clrFailed THEN ClrListRaises
       ELSE ClrDone("None") /\ UNCHANGED <<clrInTry, clrIdx, clrFailed>>
    /\ UNCHANGED <<ctlQueue, clrCache, clrProbe, clrRuns, clrForce, clrQueue,
                   clrEmpty, clrLog>>

\* GETs of the other sessions of the run fill the shared cache of 64 entries
\* and push this session's entries out
ClrCacheEvicted ==
    /\ clrPc \in {"idle", "done"}
    /\ clrCache.hit \/ clrProbe # NoProbe
    /\ clrCache' = NoList /\ clrProbe' = NoProbe
    /\ UNCHANGED <<ctlQueue, clrRuns, clrPc, clrForce, clrQueue, clrEmpty,
                   clrLog, clrIdx, clrFailed, clrInTry, clrRet>>

ClearFrame ==
    UNCHANGED <<poolVars, orchVars, bootVars, tmplVars, jobVars, powerVars, cacheVars, locVars,
                chgVars, otbVars>>
InitClear == ClearInit /\ PoolParked /\ OrchParked /\ BootParked /\ TmplParked
    /\ JobParked /\ PowerParked /\ CacheParked /\ LocParked
    /\ ChgParked /\ OtbParked
NextClear ==
    \/ CtlJobQueued /\ ClearFrame
    \/ ClrGetJobQueue /\ ClearFrame
    \/ ClrCheckSupported /\ ClearFrame
    \/ ClrDeleteJobQueueDell /\ ClearFrame
    \/ ClrDeleteJobQueueForce /\ ClearFrame
    \/ ClrDeleteJob /\ ClearFrame
    \/ ClrListEnd /\ ClearFrame
    \/ ClrCacheEvicted /\ ClearFrame
SpecClear == InitClear /\ [][NextClear]_vars

(* ---- observations used by the clearing claims ---- *)
\* the Jobs GET of the running invocation failed to communicate
JobsGetFailed == clrLog = <<Req("GET", "Jobs", 0)>>

\* C20: clear_job_queue(force=False) on a controller whose job queue is
\* empty sends no POST and no DELETE, does not probe the bulk-clear
\* capability, and completes without failure.
C20_EmptyQueueNoOp ==
    (clrPc \notin {"idle", "parked"} /\ ~clrForce /\ clrEmpty) =>
        /\ \A i \in DOMAIN clrLog :
              clrLog[i].method = "GET" /\ clrLog[i].target = "Jobs"
        /\ clrPc \notin {"probe", "bulk", "generic", "list"}
        /\ clrPc = "done" => (JobsGetFailed \/ clrRet = "None")

IsPost(r) == r.method = "POST"
IsDelete(r) == r.method = "DELETE"
IsGenericDelete(r) == r.method = "DELETE" /\ r.target = "JID_CLEARALL_FORCE"
IsJobDelete(r) == r.method = "DELETE" /\ r.target = "Job"
Posts == SelectSeq(clrLog, IsPost)
Deletes == SelectSeq(clrLog, IsDelete)
GenericDeletes == SelectSeq(clrLog, IsGenericDelete)
JobDeletes == SelectSeq(clrLog, IsJobDelete)

\* the running invocation went past `if _job_queue or force` and the
\* capability probe answered with `status`
Probed(status) ==
    /\ clrPc \in {"bulk", "generic", "list", "done"}
    /\ clrQueue # <<>> \/ clrForce
    /\ ~JobsGetFailed
    /\ clrProbe = status

\* C21: queue non-empty or force set, bulk-clear capability reported:
\* exactly one bulk-clear POST with JobID JID_CLEARALL (JID_CLEARALL_FORCE
\* when forced), no DELETE, success if and only if the POST returned 200,
\* and failure on any other status without the generic or per-job tier.
C21_BulkClearOnly ==
    Probed(200) =>
        /\ Deletes = <<>>
        /\ clrPc \in {"bulk", "done"}
        /\ clrPc = "bulk" => Posts = <<>>
        /\ clrPc = "done" =>
              /\ Len(Posts) = 1
              /\ Posts[1].target = IF clrForce THEN "JID_CLEARALL_FORCE"
                                   ELSE "JID_CLEARALL"
              /\ clrRet = "None" <=> Posts[1].status = 200
              /\ Posts[1].status # 200 => clrRet = "BadfishException"

\* a forced bulk clear that the controller rejects
C21_Witness ==
    /\ Probed(200) /\ clrPc = "done" /\ clrForce /\ clrQueue = <<>>
    /\ Posts = <<Req("POST", "JID_CLEARALL_FORCE", 400)>>
    /\ clrRet = "BadfishException"

\* C22 as stated: bulk clear not supported: one generic delete-all DELETE
\* comes first, and per-job DELETE requests are sent if and only if it
\* returned 400.
C22_PerJobIff400_AsStated ==
    (Probed(404) /\ clrPc = "done" /\ clrQueue # <<>>) =>
        /\ Len(GenericDeletes) = 1 /\ IsGenericDelete(Deletes[1])
        /\ JobDeletes # <<>> <=> GenericDeletes[1].status = 400

\* C22 (amended): bulk clear not supported: one generic delete-all DELETE
\* (JID_CLEARALL_FORCE) comes first; per-job DELETE requests are sent if and
\* only if that DELETE returned 400 or failed to communicate, and the queue
\* read by get_job_queue is not empty.
C22_PerJobIff400OrNoAnswer ==
    Probed(404) =>
        /\ clrPc \in {"generic", "list", "done"}
        /\ clrPc = "generic" => Deletes = <<>>
        /\ clrPc # "generic" =>
              /\ Len(GenericDeletes) = 1 /\ IsGenericDelete(Deletes[1])
              /\ Posts = <<>>
              /\ JobDeletes # <<>> =>
                    GenericDeletes[1].status \in {0, 400} /\ clrQueue # <<>>
              /\ (clrPc = "done" /\ GenericDeletes[1].status \in {0, 400}
                     /\ clrQueue # <<>>) => JobDeletes # <<>>

\* the generic DELETE fails to communicate and the job is deleted on its own
C22_Witness ==
    /\ Probed(404) /\ clrPc = "done" /\ clrRet = "None" /\ clrQueue = <<1>>
    /\ Deletes = <<Req("DELETE", "JID_CLEARALL_FORCE", 0), JobReq(1, 200)>>

\* C23: in the per-job tier, if the DELETE of any one queued job id does not
\* return 200 the whole clear_job_queue fails; it succeeds only if every
\* queued job id's DELETE returned 200.
C23_AnyJobFailureFails ==
    (clrPc = "done" /\ \E i \in DOMAIN JobDeletes : JobDeletes[i].status # 200)
        => clrRet = "BadfishException"


-----------------------------------------------------------------------------
(* ---- the poll loop and the controller's state ---- *)
\* C28: every iteration of a poll loop observes the controller's state at
\* that iteration: when the controller's job message changes between two
\* iterations of get_job_status, the later iteration sees the new value.
C28_IterationSeesControllerState ==
    \A k \in DOMAIN jobSeen : jobSeen[k] = jobCtl[k]


-----------------------------------------------------------------------------
(***************************************************************************)
(* READ CACHE.  get_request is decorated with alru_cache(maxsize=64) at    *)
(* class level (line 106): one LRU cache for all Badfish objects, keyed by *)
(* (self, uri, _continue).  The model follows one session and one URI,     *)
(* hence the two keys (self, uri, False) and (self, uri, True), written by *)
(* their flag.  Every other key, of this session or of another one, is     *)
(* anonymous: using it only pushes the two entries towards the old end of  *)
(* the LRU order.  cRank[k] is the number of entries used more recently    *)
(* than k; the entry whose rank reaches the capacity is dropped.           *)
(***************************************************************************)
MaxCalls == 2

CacheSize == 64
NoRank == -1
Flags == BOOLEAN
Docs == {"doc1", "doc2"}

\* an LRU that keeps a single entry
EvictedAtOne(rank) == rank >= 1

\* alru_cache(maxsize=64): an entry with 64 more recent ones is dropped
Evicted(rank) == rank >= CacheSize

\* the rank of a cached entry after one more recent entry came in
Pushed(rank) ==
    CASE rank = NoRank -> NoRank
      [] Evicted(rank + 1) -> NoRank
      [] OTHER -> rank + 1

\* the count of other keys used since, kept up to the capacity
Counted(since) ==
    CASE since = NoRank -> NoRank
      [] since >= CacheSize -> CacheSize
      [] OTHER -> since + 1

\* what a get_request that goes to the network ends with (108-125):
\* the response, None for a tolerant call that failed to communicate, or
\* BadfishException
Fetched(flag, reached) ==
    CASE reached -> ctlDoc
      [] flag -> "absent"
      [] OTHER -> "raised"

Call(method, flag, sent, value, fresh) ==
    [method |-> method, flag |-> flag, sent |-> sent, value |-> value,
     fresh |-> fresh]

CacheInit ==
    /\ cRank = [f \in Flags |-> NoRank]
    /\ cVal = [f \in Flags |-> ""]
    /\ cSince = [f \in Flags |-> NoRank]
    /\ ctlDoc \in Docs
    /\ cLog = <<>>
    /\ cEvictor = "none"

\* get_request(uri, flag) of the session, served from the cache
CacheHit(flag) ==
    /\ Len(cLog) < MaxCalls
    /\ cRank[flag] # NoRank
    /\ cLog' = Append(cLog, Call("GET", flag, FALSE, cVal[flag],
                                 cSince[flag] \in 0..(CacheSize - 1)))
    /\ cRank' = [f \in Flags |->
                    IF f = flag THEN 0
                    ELSE IF cRank[f] # NoRank /\ cRank[f] < cRank[flag]
                         THEN cRank[f] + 1 ELSE cRank[f]]
    /\ cSince' = [f \in Flags |->
                    IF f = flag
                    THEN (IF cVal[flag] = "raised" THEN NoRank ELSE 0)
                    ELSE Counted(cSince[f])]
    /\ UNCHANGED <<cVal, ctlDoc, cEvictor>>

\* get_request(uri, flag) of the session that sends the GET.  Whether a
\* raised BadfishException stays in the cache depends on the async_lru
\* release (cache_exceptions), so both outcomes are possible.
CacheMiss(flag) ==
    /\ Len(cLog) < MaxCalls
    /\ cRank[flag] = NoRank
    /\ \E reached \in BOOLEAN, kept \in BOOLEAN :
        LET value == Fetched(flag, reached)
            stored == value # "raised" \/ kept
        IN  /\ cLog' = Append(cLog, Call("GET", flag, TRUE, value,
                                         cSince[flag] \in 0..(CacheSize - 1)))
            /\ cVal' = [cVal EXCEPT ![flag] = IF stored THEN value ELSE ""]
            /\ cRank' = [f \in Flags |->
                            IF f = flag THEN (IF stored THEN 0 ELSE NoRank)
                            ELSE IF stored THEN Pushed(cRank[f]) ELSE cRank[f]]
            /\ cSince' = [f \in Flags |->
                            IF f = flag
                            THEN (IF value = "raised" THEN NoRank ELSE 0)
                            ELSE Counted(cSince[f])]
            /\ cEvictor' = IF stored /\ \E f \in Flags \ {flag} :
                                  cRank[f] # NoRank /\ Pushed(cRank[f]) = NoRank
                           THEN "own" ELSE cEvictor
    /\ UNCHANGED ctlDoc

\* post_request / patch_request / delete_request (127-182): not decorated
CacheWrite ==
    /\ Len(cLog) < MaxCalls
    /\ \E method \in {"POST", "PATCH", "DELETE"} :
        cLog' = Append(cLog, Call(method, FALSE, TRUE, "", FALSE))
    /\ UNCHANGED <<cRank, cVal, cSince, ctlDoc, cEvictor>>

\* a get_request on another key that becomes the most recent entry: another
\* URI of this session ("own") or any key of another session ("other")
OtherKeyUsed(who) ==
    /\ \E f \in Flags : cRank[f] # NoRank
    /\ cRank' = [f \in Flags |-> Pushed(cRank[f])]
    /\ cSince' = [f \in Flags |-> Counted(cSince[f])]
    /\ cEvictor' = IF \E f \in Flags : cRank[f] # NoRank /\ Pushed(cRank[f]) = NoRank
                   THEN who ELSE cEvictor
    /\ UNCHANGED <<cVal, ctlDoc, cLog>>

\* the controller's document at the URI changes
CtlDocChanges ==
    /\ Len(cLog) < MaxCalls
    /\ \E d \in Docs \ {ctlDoc} : ctlDoc' = d
    /\ UNCHANGED <<cRank, cVal, cSince, cLog, cEvictor>>

CacheFrame ==
    UNCHANGED <<poolVars, orchVars, bootVars, tmplVars, jobVars, powerVars, clearVars, locVars,
                chgVars, otbVars>>
InitCache == CacheInit /\ PoolParked /\ OrchParked /\ BootParked /\ TmplParked
    /\ JobParked /\ PowerParked /\ ClearParked /\ LocParked
    /\ ChgParked /\ OtbParked
NextCache ==
    \/ (\E flag \in Flags : CacheHit(flag)) /\ CacheFrame
    \/ (\E flag \in Flags : CacheMiss(flag)) /\ CacheFrame
    \/ CacheWrite /\ CacheFrame
    \/ (\E who \in {"own", "other"} : OtherKeyUsed(who)) /\ CacheFrame
    \/ CtlDocChanges /\ CacheFrame
SpecCache == InitCache /\ [][NextCache]_vars

(* ---- observations used by the cache claims ---- *)
Gets == {i \in DOMAIN cLog : cLog[i].method = "GET"}
\* the latest earlier get_request with the same flag, 0 if none
Previous(i) ==
    LET earlier == {j \in Gets : j < i /\ cLog[j].flag = cLog[i].flag}
    IN  IF earlier = {} THEN 0
        ELSE CHOOSE j \in earlier : \A k \in earlier : k <= j

\* C24 as stated: get results are memoized by URI for the session's whole
\* lifetime: at most one HTTP GET is ever sent for the URI, and every later
\* get_request returns the memoized response, whatever the tolerant flag
\* and however many other URIs were fetched in between.
C24_OneGetPerUri_AsStated ==
    \A i, j \in Gets :
        (i < j /\ cLog[i].value # "raised") =>
            ~cLog[j].sent /\ cLog[j].value = cLog[i].value

\* C24 (amended): get results are memoized by (URI, tolerant flag) in an LRU
\* cache of 64 entries: a get_request whose URI and flag were fetched before
\* with fewer than 64 other keys used since returns without a new HTTP
\* request; a get_request served without a request returns what the latest
\* call with the same URI and flag ended with, even if the controller's
\* document changed; post, patch and delete always send their request.
C24_MemoizedByUriAndFlag ==
    \A i \in DOMAIN cLog :
        /\ cLog[i].method # "GET" => cLog[i].sent
        /\ (cLog[i].method = "GET" /\ cLog[i].fresh) => ~cLog[i].sent
        /\ (cLog[i].method = "GET" /\ ~cLog[i].sent) =>
              /\ Previous(i) # 0
              /\ cLog[i].value = cLog[Previous(i)].value

\* a get_request is answered from the cache with the old document after the
\* controller's document changed
C24_Witness ==
    /\ Len(cLog) = 2
    /\ cLog[1] = Call("GET", TRUE, TRUE, "doc1", FALSE)
    /\ cLog[2] = Call("GET", TRUE, FALSE, "doc1", TRUE)
    /\ ctlDoc = "doc2"

\* C25: each session has its own read cache: GET requests of one session
\* never evict entries of another session.
C25_NoEvictionByOtherSession == cEvictor # "other"


-----------------------------------------------------------------------------
(***************************************************************************)
(* RESOURCE LOCATION.  badfish_factory constructs the object and awaits    *)
(* init (36-39); execute_badfish runs its actions after the factory        *)
(* returned (1639-1696) and returns on BadfishException (1698).  A path    *)
(* is the sequence of its segments, <<>> stands for None.  The documents   *)
(* of the controller are fixed for the time init runs.  status 0 stands    *)
(* for a request that failed to communicate.                               *)
(***************************************************************************)
MaxActs == 2

redfish_uri == <<"redfish", "v1">>
SystemsUri == redfish_uri \o <<"Systems">>
SystemsAltUri == redfish_uri \o <<"Chassis", "Systems">>
ManagersUri == redfish_uri \o <<"Managers">>
SysA == SystemsUri \o <<"System.Embedded.1">>
SysB == SystemsUri \o <<"System.Embedded.2">>
SysC == SystemsAltUri \o <<"System.Alt.1">>
MgrA == ManagersUri \o <<"iDRAC.Embedded.1">>
MgrB == ManagersUri \o <<"iDRAC.Embedded.2">>

\* a collection document: has is "Members" in data
Collection(status, has, members) ==
    [status |-> status, has |-> has, members |-> members]
\* the service root: a link is <<>> when the key is not in the document
Root(status, systems, managers) ==
    [status |-> status, systems |-> systems, managers |-> managers]

RootDocs ==
    {Root(st, sy, mg) : st \in {0, 200, 401, 503},
                        sy \in {<<>>, SystemsUri, SystemsAltUri},
                        mg \in {<<>>, ManagersUri}}
SystemsDocs ==
    {Collection(st, FALSE, <<>>) : st \in {0, 200, 401, 503}}
    \cup {Collection(st, TRUE, ms) : st \in {0, 200, 401, 503},
                                     ms \in {<<>>, <<SysA>>, <<SysB, SysA>>}}
SystemsAltDocs == {Collection(200, TRUE, ms) : ms \in {<<>>, <<SysC>>}}
ManagersDocs ==
    {Collection(st, FALSE, <<>>) : st \in {0, 200, 401}}
    \cup {Collection(st, TRUE, ms) : st \in {0, 200, 401},
                                     ms \in {<<>>, <<MgrA>>, <<MgrB, MgrA>>}}

\* get_request(host_uri + uri) during init
DocAt(uri) ==
    CASE uri = SystemsUri -> locDocs.systems
      [] uri = SystemsAltUri -> locDocs.systemsAlt
      [] uri = ManagersUri -> locDocs.managers
      [] OTHER -> Collection(0, FALSE, <<>>)

LocRaised == [raised |-> TRUE, value |-> <<>>]
LocReturned(value) == [raised |-> FALSE, value |-> value]

LastMember(members) == members[Len(members)]

\* for member in data["Members"]: return member["@odata.id"] (456-459)
FirstMember(members) == members[1]

\* factory returned the object only when init ended
FactoryReturnedAlways(pc) == TRUE

\* badfish_factory returned (36-39)
FactoryReturned(pc) == pc = "ready"

\* validate_credentials (377-388)
ValidateCredentials ==
    LET response == DocAt(SystemsUri)
    IN  CASE response.status = 0 -> LocRaised
          [] response.status = 401 -> LocRaised
          [] response.status \notin {200, 201} -> LocRaised
          [] OTHER -> LocReturned(<<>>)

\* find_systems_resource (433-483)
FindSystemsResource ==
    LET response == locDocs.root
        _response == DocAt(response.systems)
    IN  CASE response.status = 0 -> LocRaised
          [] response.status = 401 -> LocRaised
          [] response.systems = <<>> -> LocRaised
          [] _response.status = 0 -> LocRaised
          [] _response.status = 401 -> LocRaised
          [] _response.has /\ _response.members # <<>> ->
                LocReturned(FirstMember(_response.members))
          [] OTHER -> LocRaised

\* find_managers_resource (485-510)
FindManagersResource ==
    LET root == locDocs.root
        response == DocAt(root.managers)
    IN  CASE root.status = 0 -> LocRaised
          [] root.managers = <<>> -> LocRaised
          [] response.status = 0 -> LocRaised
          [] response.has /\ response.members # <<>> ->
                LocReturned(FirstMember(response.members))
          [] OTHER -> LocRaised

\* "%s/Bios/Settings" % system_resource[len(redfish_uri):] (71-73)
BiosUri(system) ==
    SubSeq(system, Len(redfish_uri) + 1, Len(system)) \o <<"Bios", "Settings">>

LocInit ==
    /\ locDocs \in [root : RootDocs, systems : SystemsDocs,
                    systemsAlt : SystemsAltDocs, managers : ManagersDocs]
    /\ locPc = "new"
    /\ system_resource = <<>>
    /\ manager_resource = <<>>
    /\ bios_uri = <<>>
    /\ locInits = 0
    /\ locLog = <<>>
    /\ locActs = 0

\* await badfish.init() is entered (38)
LocEnterInit ==
    /\ locPc = "new"
    /\ locPc' = "validate"
    /\ locInits' = locInits + 1
    /\ UNCHANGED <<locDocs, system_resource, manager_resource, bios_uri, locLog, locActs>>

\* await self.validate_credentials() (68)
LocValidate ==
    /\ locPc = "validate"
    /\ locPc' = IF ValidateCredentials.raised THEN "failed" ELSE "systems"
    /\ locLog' = Append(locLog, "init")
    /\ UNCHANGED <<locDocs, system_resource, manager_resource, bios_uri, locInits, locActs>>

\* self.system_resource = await self.find_systems_resource() (69)
LocFindSystems ==
    /\ locPc = "systems"
    /\ IF FindSystemsResource.raised
       THEN locPc' = "failed" /\ UNCHANGED system_resource
       ELSE locPc' = "managers" /\ system_resource' = FindSystemsResource.value
    /\ locLog' = Append(locLog, "init")
    /\ UNCHANGED <<locDocs, manager_resource, bios_uri, locInits, locActs>>

\* self.manager_resource = await self.find_managers_resource() (70)
LocFindManagers ==
    /\ locPc = "managers"
    /\ IF FindManagersResource.raised
       THEN locPc' = "failed" /\ UNCHANGED manager_resource
       ELSE locPc' = "bios" /\ manager_resource' = FindManagersResource.value
    /\ locLog' = Append(locLog, "init")
    /\ UNCHANGED <<locDocs, system_resource, bios_uri, locInits, locActs>>

\* self.bios_uri = ...; init and the factory return (71-73, 39)
LocBios ==
    /\ locPc = "bios"
    /\ bios_uri' = BiosUri(system_resource)
    /\ locPc' = "ready"
    /\ UNCHANGED <<locDocs, system_resource, manager_resource, locInits, locLog, locActs>>

\* an action of execute_badfish sends a request (1650-1696)
LocAction ==
    /\ FactoryReturned(locPc)
    /\ locActs < MaxActs
    /\ locActs' = locActs + 1
    /\ locLog' = Append(locLog, "action")
    /\ UNCHANGED <<locDocs, locPc, system_resource, manager_resource, bios_uri, locInits>>

LocFrame ==
    UNCHANGED <<poolVars, orchVars, bootVars, tmplVars, jobVars, powerVars, clearVars, cacheVars,
                chgVars, otbVars>>
InitLocate == LocInit /\ PoolParked /\ OrchParked /\ BootParked /\ TmplParked
    /\ JobParked /\ PowerParked /\ ClearParked /\ CacheParked
    /\ ChgParked /\ OtbParked
NextLocate ==
    \/ LocEnterInit /\ LocFrame
    \/ LocValidate /\ LocFrame
    \/ LocFindSystems /\ LocFrame
    \/ LocFindManagers /\ LocFrame
    \/ LocBios /\ LocFrame
    \/ LocAction /\ LocFrame
SpecLocate == InitLocate /\ [][NextLocate]_vars

(* ---- observations used by the location claims ---- *)
LocEnded == locPc \in {"ready", "failed"}
LinkedSystems == DocAt(locDocs.root.systems)
AllReached ==
    /\ locDocs.root.status # 0
    /\ locDocs.systems.status # 0
    /\ locDocs.managers.status # 0
Usable(doc) == doc.has /\ doc.members # <<>>
LinksAndMembers ==
    /\ locDocs.root.systems # <<>> /\ Usable(LinkedSystems)
    /\ locDocs.root.managers # <<>> /\ Usable(locDocs.managers)
NoPathSet ==
    system_resource = <<>> /\ manager_resource = <<>> /\ bios_uri = <<>>
LocatedFirstMembers ==
    /\ locPc = "ready"
    /\ system_resource = LinkedSystems.members[1]
    /\ manager_resource = locDocs.managers.members[1]

\* C26: location completes before any action sends a request and runs
\* exactly once; the three resource paths never change afterwards; when
\* location fails no action is executed.
C26_LocationOnceBeforeActions ==
    /\ [](/\ locInits <= 1
          /\ locActs > 0 =>
                /\ locPc = "ready" /\ locInits = 1
                /\ system_resource # <<>> /\ manager_resource # <<>>
                /\ bios_uri # <<>>
          /\ \A i \in DOMAIN locLog :
                locLog[i] = "action" =>
                    \A j \in DOMAIN locLog : locLog[j] = "init" => j < i
          /\ locPc = "failed" => locActs = 0)
    /\ [][locPc = "ready" =>
            UNCHANGED <<system_resource, manager_resource, bios_uri, locInits>>]_vars

\* location succeeded and both actions of the session ran
C26_Witness ==
    /\ locPc = "ready" /\ locActs = MaxActs /\ locInits = 1
    /\ system_resource = SysB /\ bios_uri = <<"Systems", "System.Embedded.2", "Bios", "Settings">>

\* C27 as stated: location fails on a 401 from the service root or the
\* Systems collection; otherwise (all requests answered, both links present,
\* both Members lists non-empty) the resources are the first members; when
\* location fails no resource path is set.
C27_FirstMembersOr401_AsStated ==
    LocEnded =>
        /\ (locDocs.root.status = 401 \/ LinkedSystems.status = 401
            \/ locDocs.systems.status = 401) => locPc = "failed"
        /\ (/\ AllReached
            /\ locDocs.root.status # 401 /\ LinkedSystems.status # 401
            /\ locDocs.systems.status # 401
            /\ LinksAndMembers) => LocatedFirstMembers
        /\ locPc = "failed" => NoPathSet

\* C27 (amended): location fails when a request fails to communicate, on a
\* 401 from the service root or from the linked Systems collection, when
\* <root>/Systems answers with a status other than 200 or 201, and when a
\* collection link is missing or its Members list is absent or empty;
\* otherwise it succeeds with the first member of the linked Systems
\* collection and the first member of the Managers collection.  After a
\* failure the manager and BIOS paths are unset; the system path is set
\* exactly when the failure came from the Managers lookup.
C27_FirstMembersOrFailure ==
    LET systemsOk ==
            /\ locDocs.systems.status \in {200, 201}
            /\ locDocs.root.status \notin {0, 401}
            /\ locDocs.root.systems # <<>>
            /\ LinkedSystems.status \notin {0, 401}
            /\ Usable(LinkedSystems)
        managersOk ==
            /\ locDocs.root.managers # <<>>
            /\ locDocs.managers.status # 0
            /\ Usable(locDocs.managers)
    IN  LocEnded =>
            /\ locPc = "ready" <=> (systemsOk /\ managersOk)
            /\ locPc = "ready" => LocatedFirstMembers
            /\ locPc = "failed" =>
                  /\ manager_resource = <<>> /\ bios_uri = <<>>
                  /\ system_resource # <<>> <=> systemsOk
                  /\ system_resource # <<>> =>
                        system_resource = LinkedSystems.members[1]

\* location succeeded on collections with two members each
C27_Witness ==
    /\ locPc = "ready"
    /\ locDocs.systems.members = <<SysB, SysA>> /\ system_resource = SysB
    /\ locDocs.managers.members = <<MgrB, MgrA>> /\ manager_resource = MgrB


-----------------------------------------------------------------------------
(* ---- patch_boot_seq: outcome and PATCH budget ---- *)
PatchBootSeqReturned == RunDone /\ bootChange

\* C29: when no PATCH returned 200 within the retry budget, patch_boot_seq
\* fails (raises), also when every attempt failed to communicate and when
\* the budget is 0.
C29_NoSuccessFails ==
    (PatchBootSeqReturned /\ bootStatus # 200) => bootRaised

\* C30: patch_boot_seq sends at most `retries` PATCH requests, sends none
\* after the first one that returned 200, and goes on to a further PATCH
\* (the loop is not left) while the status is not 200 and budget remains.
C30_PatchBudget ==
    /\ [](/\ bootPatches <= bootRetries
          /\ (bootPc = "patch" /\ bootStatus # 200 /\ bootPatches < bootRetries)
                => (ENABLED PatchBootSeqSend /\ ~ENABLED PatchBootSeqEnd))
    /\ [][(bootPc = "patch" /\ bootStatus = 200) =>
            bootPatches' = bootPatches]_vars

\* the first PATCH returned 200 with budget left, and patch_boot_seq
\* returned without sending a second one
C30_Witness ==
    /\ PatchBootSeqReturned /\ bootStatus = 200 /\ bootPatches = 1
    /\ bootRetries > 1 /\ ~bootRaised

-----------------------------------------------------------------------------
(* ---- job queue clearing: DELETEs per job ---- *)
DeletesOf(job) == SelectSeq(clrLog, LAMBDA r : IsJobDelete(r) /\ r.job = job)

\* C36: within one clear_job_queue invocation each queued job id receives
\* at most one DELETE request, whatever the statuses of the generic and
\* per-job DELETE requests.
C36_OneDeletePerJob ==
    \A job \in Range(clrQueue) : Len(DeletesOf(job)) <= 1

-----------------------------------------------------------------------------
(* ---- reboot_server: the On reset and the unknown power state ---- *)
OnResets == SelectSeq(Sent, LAMBDA t : t = "On")

\* C34: reboot_server on an On host: On is sent if and only if the poll for
\* "not Down" that follows the off phase observed a state other than Down
\* within its budget; On is never the first reset (the restart type or
\* ForceOff comes before it); at most one On is sent.
C34_OnIffLeftDown ==
    \A graceful \in BOOLEAN :
        RebootRead(graceful, "On") =>
            /\ "On" \in Range(Sent) => UpSeen
            /\ (UpSeen /\ pwPc = "done") => "On" \in Range(Sent)
            /\ (UpSeen /\ pwPc # "done") => pwPc \in {"poll_up", "on"}
            /\ Len(Sent) >= 1 => Sent[1] \in {reset_type, "ForceOff"} \ {"On"}
            /\ Len(OnResets) <= 1
            /\ Len(UpObs) <= pwRetries

\* forced reboot: the first observation after ForceOff is Down, the second
\* is Off, and On is sent
C34_Witness ==
    /\ RebootRead(FALSE, "On") /\ pwPc = "done" /\ pwRet = "True"
    /\ UpObs = <<"Down", "Off">>
    /\ Sent = <<"ForceOff", "On">>

\* C39: reboot_server sends no reset when the power state it first reads is
\* neither On nor Off, and completes with success.
C39_UnknownStateNoReset ==
    \A graceful \in BOOLEAN :
        RebootRead(graceful, "Down") =>
            /\ Sent = <<>>
            /\ OffObs = <<>> /\ UpObs = <<>>
            /\ pwPc = "done" /\ pwRet = "True"

\* the first read came back with a status other than 200
C39_Witness ==
    /\ RebootRead(TRUE, "Down") /\ pwLog[2].resp = "non200" /\ pwLog[2].sent
    /\ pwPc = "done" /\ pwRet = "True" /\ Sent = <<>>

-----------------------------------------------------------------------------
(* ---- polling_host_state: budget, result, sleeps, progress ---- *)
\* the states observed by the poll for `state`
ObsOf(state) == IF state = "Off" THEN OffObs ELSE UpObs
\* the observation satisfies the target of the poll
Satisfies(value, poll) ==
    IF poll.equals THEN value = poll.state ELSE value # poll.state
NonDecreasing(q) == \A i, j \in DOMAIN q : i <= j => q[i] <= q[j]

\* C35: polling_host_state makes at most `retries` observations, stops
\* after the first one that satisfies the target, returns true if and only
\* if there was one, sleeps once per observation, the satisfying one
\* included, and prints percentages that never decrease.
C35_PollBudgetAndResult ==
    /\ pwCount <= pwRetries
    /\ (pwPc \in {"poll_off", "poll_up"}) =>
          /\ pwSleeps = pwCount /\ Len(pwBar) = pwCount
          /\ NonDecreasing(pwBar)
    /\ \A k \in DOMAIN pwPolls :
          LET poll == pwPolls[k]
              obs == ObsOf(poll.state)
          IN  /\ poll.count = Len(obs) /\ Len(obs) <= pwRetries
              /\ \A i \in 1..(Len(obs) - 1) : ~Satisfies(obs[i], poll)
              /\ poll.ret <=> (obs # <<>> /\ Satisfies(obs[Len(obs)], poll))
              /\ ~poll.ret => Len(obs) = pwRetries
              /\ poll.sleeps = Len(obs)
              /\ Len(poll.bar) = Len(obs) /\ NonDecreasing(poll.bar)
              /\ poll.ret => poll.bar[Len(obs)] = 100

\* the poll for Off used up its budget of two, the poll for "not Down" was
\* satisfied by its first observation and stopped
C35_Witness ==
    /\ pwRetries = 2 /\ Len(pwPolls) = 2
    /\ pwPolls[1] = [state |-> "Off", equals |-> TRUE, count |-> 2,
                     sleeps |-> 2, bar |-> <<0, 50>>, ret |-> FALSE]
    /\ pwPolls[2] = [state |-> "Down", equals |-> FALSE, count |-> 1,
                     sleeps |-> 1, bar |-> <<100>>, ret |-> TRUE]

-----------------------------------------------------------------------------
(***************************************************************************)
(* CHANGE BOOT.  change_boot (567-600) after its argument checks, with     *)
(* get_host_type (353-375) computed on the session's device list and on    *)
(* what get_interfaces_by_type finds for this host under each host type    *)
(* of the yaml file (<<>>: no key of that type fits the host, the lookup   *)
(* raises).  clear_job_queue, patch_boot_seq and reboot_server are taken   *)
(* by what they send and how they end.  Status 0 stands for a request that *)
(* failed to communicate.                                                  *)
(***************************************************************************)
\* sorted(list(host_types)) (line 350)
SortedTypes == <<"director", "foreman">>

ChgTemplates == {<<>>, <<"nic1">>, <<"nic1", "nic2">>, <<"nic2", "nic1">>,
                 <<"hdd", "nic1">>, <<"nic1", "nic2", "hdd">>, <<"nic9", "nic1">>}

Wr(step, method, status) == [step |-> step, method |-> method, status |-> status]
Outcome(reqs, raised) == [reqs |-> reqs, raised |-> raised]

\* sorted(devices, key=lambda x: x["Index"]): stable, smallest Index first
RECURSIVE SortByIndex(_)
SortByIndex(devs) ==
    IF devs = <<>> THEN <<>>
    ELSE LET k == CHOOSE k \in DOMAIN devs :
                    /\ \A j \in DOMAIN devs : devs[k].Index <= devs[j].Index
                    /\ \A j \in 1..(k - 1) : devs[j].Index # devs[k].Index
         IN  <<devs[k]>> \o SortByIndex(SubSeq(devs, 1, k - 1)
                                          \o SubSeq(devs, k + 1, Len(devs)))

\* self.boot_devices[: n]
Slice(devs, n) == SubSeq(devs, 1, IF n < Len(devs) THEN n ELSE Len(devs))

\* lines 364-371: the loop over the sorted slice; interfaces[device["Index"]]
\* raises IndexError for an Index past the template
RECURSIVE MatchFrom(_, _)
MatchFrom(sorted, interfaces) ==
    IF sorted = <<>> THEN "match"
    ELSE LET device == Head(sorted)
         IN  CASE device.Index >= Len(interfaces) -> "IndexError"
               [] device.Name = interfaces[device.Index + 1] ->
                     MatchFrom(Tail(sorted), interfaces)
               [] OTHER -> "mismatch"

\* lines 358-375: the loop over the host types still to try
RECURSIVE GetHostTypeFrom(_, _, _)
GetHostTypeFrom(devs, map, types) ==
    IF types = <<>> THEN "None"
    ELSE LET interfaces == map[Head(types)]
             match == MatchFrom(SortByIndex(Slice(devs, Len(interfaces))),
                                interfaces)
         IN  CASE interfaces = <<>> -> "BadfishException"
               [] match = "match" -> Head(types)
               [] match = "IndexError" -> "IndexError"
               [] OTHER -> GetHostTypeFrom(devs, map, Tail(types))

GetHostType(devs, map) == GetHostTypeFrom(devs, map, SortedTypes)

\* line 584: (_type and _type.lower() != host_type.lower()) or not _type
NeedsChange(_type, host_type) ==
    (_type # "None" /\ _type # host_type) \/ _type = "None"

\* create_bios_config_job (801-805) has no return statement
CreateBiosConfigJobValue == "None"

\* lines 591-595: `if job_id: await self.get_job_status(job_id)`, then
\* reboot_server
AfterCreateJob(job_id) == IF job_id # "None" THEN "job_poll" ELSE "reboot"

\* what clear_job_queue sends and whether it raises
ClearOutcomes ==
    {Outcome(<<>>, FALSE),
     Outcome(<<Wr("clear", "POST", 200)>>, FALSE),
     Outcome(<<Wr("clear", "POST", 400)>>, TRUE),
     Outcome(<<Wr("clear", "DELETE", 400), Wr("clear", "DELETE", 200)>>, FALSE)}

\* patch_boot_seq (631-656): the statuses of the PATCHes it sends and whether
\* it raises; the loop sends until a 200 or the end of the budget, and
\* error_handler runs only when the last response exists
PatchOutcomes(retries) ==
    {Outcome([i \in DOMAIN q |-> Wr("order", "PATCH", q[i])],
             q # <<>> /\ q[Len(q)] = 400) :
        q \in {q \in SeqsUpTo({0, 200, 400}, retries) :
                  /\ \A i \in 1..(Len(q) - 1) : q[i] # 200
                  /\ Len(q) = retries \/ (q # <<>> /\ q[Len(q)] = 200)}}

\* reboot_server(graceful=False) (836-867): the resets it sends and whether
\* it raises
RebootOutcomes ==
    {Outcome(<<>>, FALSE), Outcome(<<>>, TRUE),
     Outcome(<<Wr("reboot", "POST", 204)>>, FALSE),
     Outcome(<<Wr("reboot", "POST", 400)>>, TRUE),
     Outcome(<<Wr("reboot", "POST", 204), Wr("reboot", "POST", 204)>>, FALSE)}

ChgDone(ret) == chgPc' = "done" /\ chgRet' = ret

ChgInit ==
    /\ \E n \in 1..Len(LiveOrder) :
       \E idx \in [1..n -> 0..(n - 1)] :
          /\ \A a, b \in 1..n : idx[a] = idx[b] => a = b
          /\ chgDevs = [k \in 1..n |->
                [Name |-> LiveOrder[k], Index |-> idx[k], Enabled |-> (k # 2)]]
    /\ chgMap \in [HostTypes -> ChgTemplates]
    /\ chgCall \in [host_type : HostTypes, pxe : BOOLEAN]
    /\ chgRetries \in 0..MaxRetries
    /\ chgPc = "start" /\ chgType = "" /\ chgChange = FALSE
    /\ chgLog = <<>> /\ chgRet = "pending"

\* _type = await self.get_host_type(interfaces_path) and the test of line 584
ChgGetHostType ==
    /\ chgPc = "start"
    /\ chgType' = GetHostType(chgDevs, chgMap)
    /\ CASE chgType' \in {"IndexError", "BadfishException"} -> ChgDone(chgType')
         [] NeedsChange(chgType', chgCall.host_type) ->
               chgPc' = "clear" /\ UNCHANGED chgRet
         [] OTHER -> ChgDone("True")
    /\ UNCHANGED <<chgDevs, chgMap, chgCall, chgRetries, chgChange, chgLog>>

\* await self.clear_job_queue() (585)
ChgClearJobQueue ==
    /\ chgPc = "clear"
    /\ \E o \in ClearOutcomes :
        /\ chgLog' = chgLog \o o.reqs
        /\ IF o.raised THEN ChgDone("BadfishException")
           ELSE chgPc' = "order" /\ UNCHANGED chgRet
    /\ UNCHANGED <<chgDevs, chgMap, chgCall, chgRetries, chgType, chgChange>>

\* await self.change_boot_order(host_type, interfaces_path) (586, 602-629)
ChgChangeBootOrder ==
    /\ chgPc = "order"
    /\ LET interfaces == chgMap[chgCall.host_type]
           r == Reconcile(chgDevs, interfaces)
           next == IF chgCall.pxe THEN "pxe" ELSE "job"
       IN  IF interfaces = <<>>
           THEN ChgDone("BadfishException")
                /\ UNCHANGED <<chgDevs, chgChange, chgLog>>
           ELSE /\ chgDevs' = r.devices
                /\ chgChange' = r.change
                /\ IF r.change
                   THEN \E o \in PatchOutcomes(chgRetries) :
                           /\ chgLog' = chgLog \o o.reqs
                           /\ IF o.raised THEN ChgDone("BadfishException")
                              ELSE chgPc' = next /\ UNCHANGED chgRet
                   ELSE chgPc' = next /\ UNCHANGED <<chgLog, chgRet>>
    /\ UNCHANGED <<chgMap, chgCall, chgRetries, chgType>>

\* await self.set_next_boot_pxe() (588-589, 658-678)
ChgSetNextBootPxe ==
    /\ chgPc = "pxe"
    /\ \E status \in {0, 200, 400} :
        /\ chgLog' = Append(chgLog, Wr("pxe", "PATCH", status))
        /\ IF status = 200 THEN chgPc' = "job" /\ UNCHANGED chgRet
           ELSE ChgDone("BadfishException")
    /\ UNCHANGED <<chgDevs, chgMap, chgCall, chgRetries, chgType, chgChange>>

\* job_id = await self.create_bios_config_job(self.bios_uri) and the test of
\* job_id (591-593); create_job (784-799) raises on a status outside [200, 204]
ChgCreateBiosConfigJob ==
    /\ chgPc = "job"
    /\ \E status \in {0, 200, 204, 400} :
        /\ chgLog' = Append(chgLog, Wr("job", "POST", status))
        /\ IF status \in {200, 204}
           THEN chgPc' = AfterCreateJob(CreateBiosConfigJobValue)
                /\ UNCHANGED chgRet
           ELSE ChgDone("BadfishException")
    /\ UNCHANGED <<chgDevs, chgMap, chgCall, chgRetries, chgType, chgChange>>

\* await self.reboot_server(graceful=False) and `return True` (595, 601)
ChgRebootServer ==
    /\ chgPc = "reboot"
    /\ \E o \in RebootOutcomes :
        /\ chgLog' = chgLog \o o.reqs
        /\ ChgDone(IF o.raised THEN "BadfishException" ELSE "True")
    /\ UNCHANGED <<chgDevs, chgMap, chgCall, chgRetries, chgType, chgChange>>

ChgFrame ==
    UNCHANGED <<poolVars, orchVars, bootVars, tmplVars, jobVars, powerVars,
                clearVars, cacheVars, locVars, otbVars>>
InitChange == ChgInit /\ PoolParked /\ OrchParked /\ BootParked /\ TmplParked
    /\ JobParked /\ PowerParked /\ ClearParked /\ CacheParked /\ LocParked
    /\ OtbParked
NextChange ==
    \/ ChgGetHostType /\ ChgFrame
    \/ ChgClearJobQueue /\ ChgFrame
    \/ ChgChangeBootOrder /\ ChgFrame
    \/ ChgSetNextBootPxe /\ ChgFrame
    \/ ChgCreateBiosConfigJob /\ ChgFrame
    \/ ChgRebootServer /\ ChgFrame
SpecChange == InitChange /\ [][NextChange]_vars

(* ---- observations used by the change_boot claims ---- *)
StepsOf(step) == SelectSeq(chgLog, LAMBDA r : r.step = step)
\* the names of the live devices in ascending Index order
LiveByIndex == [i \in DOMAIN chgDevs |-> SortByIndex(chgDevs)[i].Name]
\* the live boot order begins with the template of `type`
LiveMatches(devs, type) ==
    LET template == chgMap[type]
        live == [i \in DOMAIN devs |-> SortByIndex(devs)[i].Name]
    IN  /\ template # <<>> /\ Len(template) <= Len(live)
        /\ \A i \in DOMAIN template : live[i] = template[i]
TypeResolved == chgPc # "start"
RebootReached == chgPc = "reboot" \/ StepsOf("reboot") # <<>>

\* C31: whenever change_boot has to change the boot order, the config job is
\* polled with get_job_status and reboot_server is invoked only after the
\* poll returned success.
C31_RebootAfterJobPoll ==
    RebootReached => StepsOf("job_poll") # <<>>

\* C32: get_host_type returns T only if the first len(template_T) live
\* devices in ascending Index order have the names of template_T in order;
\* it returns the first such T in sorted order; when no type matches it
\* returns None without failing.  Stated for the mappings in which every
\* host type has a template for this host.
C32_HostTypeIsFirstMatch ==
    (TypeResolved /\ \A t \in HostTypes : chgMap[t] # <<>>) =>
        /\ chgType \notin {"IndexError", "BadfishException"}
        /\ \A i \in DOMAIN SortedTypes :
              chgType = SortedTypes[i] =>
                  /\ LiveMatches(chgDevs, SortedTypes[i])
                  /\ \A j \in 1..(i - 1) : ~LiveMatches(chgDevs, SortedTypes[j])
        /\ chgType = "None" =>
              \A i \in DOMAIN SortedTypes : ~LiveMatches(chgDevs, SortedTypes[i])

\* C33: change_boot for a requested host type whose template the live boot
\* order already matches sends no PATCH, POST or DELETE request.
C33_MatchingOrderNoWrites ==
    (~chgChange /\ LiveMatches(chgDevs, chgCall.host_type)) => chgLog = <<>>

StepRank(step) ==
    CASE step = "clear" -> 1
      [] step = "order" -> 2
      [] step = "pxe" -> 3
      [] step = "job" -> 4
      [] step = "reboot" -> 5
\* the step ended without success: its last request did not return 200 or
\* 204, or (boot order) an index had to be written and no PATCH was sent
StepFailed(step) ==
    LET reqs == StepsOf(step)
    IN  \/ reqs # <<>> /\ reqs[Len(reqs)].status \notin {200, 204}
        \/ /\ step = "order" /\ chgChange /\ reqs = <<>>
           /\ chgPc \notin {"start", "clear", "order"}

\* C38: the write steps of change_boot are sent in the order job-queue
\* clearing, boot-order PATCH (only if an index changed), PXE PATCH (only if
\* pxe), config-job POST, resets; when a step fails no request of a later
\* step is sent.
C38_StepsInOrderStopOnFailure ==
    /\ \A i, j \in DOMAIN chgLog :
          i <= j => StepRank(chgLog[i].step) <= StepRank(chgLog[j].step)
    /\ StepsOf("order") # <<>> => chgChange
    /\ StepsOf("pxe") # <<>> => chgCall.pxe
    /\ \A step \in {"clear", "order", "pxe", "job"} :
          StepFailed(step) =>
              \A i \in DOMAIN chgLog :
                  StepRank(chgLog[i].step) <= StepRank(step)

-----------------------------------------------------------------------------
(***************************************************************************)
(* ONE-TIME BOOT.  boot_to (930-938) with send_one_time_boot (975-1004).   *)
(* otbLog records, in program order, the PATCHes of send_one_time_boot,    *)
(* the config-job POST and the calls of clear_job_queue, reset_idrac and   *)
(* polling_host_state: [ev, status, raised], status 0 for a call or for a  *)
(* request that failed to communicate, 1 for a polling_host_state that     *)
(* returned True.                                                          *)
(***************************************************************************)
PatchStatuses == {0, 200, 400, 500, 503}

Otb(ev, status, raised) == [ev |-> ev, status |-> status, raised |-> raised]

\* a reset_idrac on every 400
ResetNeededAlways(first_reset) == TRUE

\* line 997: `if not _first_reset`
ResetNeeded(first_reset) == ~first_reset

\* lines 987-1004: what the loop does with the status of its PATCH; the
\* test `i - 1 != self.retries` of line 992 holds for every i of the loop
AfterPatch(status_code, i, retries) ==
    CASE status_code = 200 -> "break"
      [] status_code = 503 /\ i - 1 # retries -> "continue"
      [] status_code = 400 -> "clear"
      [] OTHER -> "raise"

OtbDone(ret) == otbPc' = "done" /\ otbRet' = ret

OtbInit ==
    /\ otbRetries \in 0..MaxRetries
    /\ otbPc = "start" /\ otbI = 0 /\ otbFirstReset = FALSE
    /\ otbLog = <<>> /\ otbRet = "pending"

\* boot_to up to send_one_time_boot: check_device and clear_job_queue (931-933)
OtbBootTo ==
    /\ otbPc = "start"
    /\ \E device_check \in BOOLEAN, raised \in BOOLEAN :
        IF ~device_check
        THEN OtbDone("BadfishException") /\ UNCHANGED otbLog
        ELSE /\ otbLog' = Append(otbLog, Otb("clear", 0, raised))
             /\ IF raised THEN OtbDone("BadfishException")
                ELSE otbPc' = "loop" /\ UNCHANGED otbRet
    /\ UNCHANGED <<otbRetries, otbI, otbFirstReset>>

\* one iteration of the loop up to the branch on the status (985-994); the
\* patch_request is not tolerant and raises when it cannot communicate
OtbPatch ==
    /\ otbPc = "loop" /\ otbI < otbRetries
    /\ \E status \in PatchStatuses :
        /\ otbLog' = Append(otbLog, Otb("PATCH", status, status = 0))
        /\ IF status = 0 THEN OtbDone("BadfishException")
           ELSE LET next == AfterPatch(status, otbI, otbRetries)
                IN  CASE next = "break" -> otbPc' = "job" /\ UNCHANGED otbRet
                      [] next = "continue" -> otbPc' = "loop" /\ UNCHANGED otbRet
                      [] next = "clear" -> otbPc' = "clear" /\ UNCHANGED otbRet
                      [] OTHER -> OtbDone("BadfishException")
    /\ otbI' = otbI + 1
    /\ UNCHANGED <<otbRetries, otbFirstReset>>

\* `for i in range(self.retries)` is used up: send_one_time_boot returns
OtbLoopEnd ==
    /\ otbPc = "loop" /\ otbI = otbRetries
    /\ otbPc' = "job"
    /\ UNCHANGED <<otbRetries, otbI, otbFirstReset, otbLog, otbRet>>

\* await self.clear_job_queue() after a 400 (996)
OtbClearJobQueue ==
    /\ otbPc = "clear"
    /\ \E raised \in BOOLEAN :
        /\ otbLog' = Append(otbLog, Otb("clear", 0, raised))
        /\ IF raised THEN OtbDone("BadfishException")
           ELSE /\ otbPc' = IF ResetNeeded(otbFirstReset) THEN "reset" ELSE "loop"
                /\ UNCHANGED otbRet
    /\ UNCHANGED <<otbRetries, otbI, otbFirstReset>>

\* await self.reset_idrac(), the sleep and `_first_reset = True` (998-1000);
\* reset_idrac (869-900) raises unless its POST returns 204
OtbResetIdrac ==
    /\ otbPc = "reset"
    /\ \E status \in {0, 200, 204, 400} :
        /\ otbLog' = Append(otbLog, Otb("reset_idrac", status, status # 204))
        /\ IF status # 204
           THEN OtbDone("BadfishException") /\ UNCHANGED otbFirstReset
           ELSE otbFirstReset' = TRUE /\ otbPc' = "poll" /\ UNCHANGED otbRet
    /\ UNCHANGED <<otbRetries, otbI>>

\* await self.polling_host_state("On") (1001): the value is not used
OtbPollingHostState ==
    /\ otbPc = "poll"
    /\ \E value \in {"True", "False", "BadfishException"} :
        /\ otbLog' = Append(otbLog, Otb("poll", IF value = "True" THEN 1 ELSE 0,
                                         value = "BadfishException"))
        /\ IF value = "BadfishException" THEN OtbDone(value)
           ELSE otbPc' = "loop" /\ UNCHANGED otbRet
    /\ UNCHANGED <<otbRetries, otbI, otbFirstReset>>

\* await self.create_bios_config_job(self.bios_uri) and `return True` (934,
\* 937); create_job (784-799) raises on a status outside [200, 204]
OtbCreateBiosConfigJob ==
    /\ otbPc = "job"
    /\ \E status \in {0, 200, 204, 400} :
        /\ otbLog' = Append(otbLog, Otb("job", status, status \notin {200, 204}))
        /\ OtbDone(IF status \in {200, 204} THEN "True" ELSE "BadfishException")
    /\ UNCHANGED <<otbRetries, otbI, otbFirstReset>>

OtbFrame ==
    UNCHANGED <<poolVars, orchVars, bootVars, tmplVars, jobVars, powerVars,
                clearVars, cacheVars, locVars, chgVars>>
InitOneTime == OtbInit /\ PoolParked /\ OrchParked /\ BootParked /\ TmplParked
    /\ JobParked /\ PowerParked /\ ClearParked /\ CacheParked /\ LocParked
    /\ ChgParked
NextOneTime ==
    \/ OtbBootTo /\ OtbFrame
    \/ OtbPatch /\ OtbFrame
    \/ OtbLoopEnd /\ OtbFrame
    \/ OtbClearJobQueue /\ OtbFrame
    \/ OtbResetIdrac /\ OtbFrame
    \/ OtbPollingHostState /\ OtbFrame
    \/ OtbCreateBiosConfigJob /\ OtbFrame
SpecOneTime == InitOneTime /\ [][NextOneTime]_vars

(* ---- observations used by the one-time boot claims ---- *)
OtbPatches == SelectSeq(otbLog, LAMBDA e : e.ev = "PATCH")
OtbResets == SelectSeq(otbLog, LAMBDA e : e.ev = "reset_idrac")
Is400(e) == e.ev = "PATCH" /\ e.status = 400
\* the PATCH at position k is the first one that returned 400
First400(k) == Is400(otbLog[k]) /\ \A j \in 1..(k - 1) : ~Is400(otbLog[j])
\* send_one_time_boot returned normally
OneTimeBootReturned ==
    otbPc = "job" \/ \E k \in DOMAIN otbLog : otbLog[k].ev = "job"

\* C37: send_one_time_boot returns normally only if one of its PATCH
\* requests returned 200, so boot_to never creates the config job without
\* the one-time-boot setting having been accepted.  Stated for a retry
\* budget of at least 1.
C37_ReturnsOnlyAfter200 ==
    (OneTimeBootReturned /\ otbRetries >= 1) =>
        \E k \in DOMAIN OtbPatches : OtbPatches[k].status = 200

\* C40: within one send_one_time_boot, reset_idrac is performed at most
\* once, after the first PATCH that returned 400 and its clear_job_queue;
\* every 400 is followed by a clear_job_queue before the next PATCH; at most
\* `retries` PATCHes are sent.
C40_OneResetClearOnEvery400 ==
    /\ Len(OtbResets) <= 1
    /\ Len(OtbPatches) <= otbRetries
    /\ \A k \in DOMAIN otbLog :
          /\ otbLog[k].ev = "reset_idrac" =>
                /\ k > 2 /\ First400(k - 2)
                /\ otbLog[k - 1] = Otb("clear", 0, FALSE)
          /\ Is400(otbLog[k]) =>
                /\ Len(otbLog) > k => otbLog[k + 1].ev = "clear"
                /\ Len(otbLog) = k => otbPc = "clear"
                /\ (First400(k) /\ Len(otbLog) > k + 1) =>
                      otbLog[k + 2].ev = "reset_idrac"

\* two PATCHes returned 400: one reset after the first, a second
\* clear_job_queue and no reset after the second
C40_Witness ==
    /\ Len(otbLog) = 7 /\ otbPc = "job"
    /\ Is400(otbLog[2]) /\ otbLog[3].ev = "clear"
    /\ otbLog[4] = Otb("reset_idrac", 204, FALSE) /\ otbLog[5].ev = "poll"
    /\ Is400(otbLog[6]) /\ otbLog[7] = Otb("clear", 0, FALSE)


=============================================================================
